---- MODULE Spec2Model ----
(***************************************************************************)
(* ResultMerger of opendataloader_pdf.hybrid.merge.merger: the merge of    *)
(* the JAR extraction (all_pages.json) with the AI-path results, under the *)
(* page routing of triage.json.                                            *)
(*                                                                         *)
(* Python values are modelled as follows.                                  *)
(*   dict           a function whose DOMAIN is the set of keys present     *)
(*   list           a sequence                                             *)
(*   Optional[T]    None == <<>>, or Some(v) == <<v>>                      *)
(*   a JSON null in a string-valued field    the string Null               *)
(*   an element object (a dict with identity, mutated in place by merge)   *)
(*                  an index into heap; lists of elements hold indices     *)
(***************************************************************************)
EXTENDS Integers, Sequences, FiniteSets, TLC

\* ---------------------------------------------------------------- bounds
\* Page numbers of the inputs range over 1..MaxPage.
MaxPage == 2
\* The fast-path document and the AI results hold at most MaxElems elements
\* together.
MaxElems == 2
\* Bounding-box coordinates range over 0..MaxCoord.
MaxCoord == 1
\* A formats list holds at most MaxFormats names.
MaxFormats == 2
\* A table holds at most MaxCells cells, in the columns 0..MaxIndex and the
\* rows 0..MaxIndex + 1.
MaxCells == 2
MaxIndex == 1
\* process gets past its validation at most MaxRuns times.
MaxRuns == 1
\* A text to escape has at most MaxText characters.
MaxText == 2
\* At most MaxCalls calls are made on the registry or on the adapters.
MaxCalls == 3
\* A triage list with repeated pages has at most MaxEntries entries.
MaxEntries == 2
\* merge is called at most MaxMerges times on a merger.
MaxMerges == 2

\* ------------------------------------------------------ Python data model
None == <<>>
Some(v) == <<v>>
Val(o) == o[1]
Null == "null"
EmptyDict == <<>>

\* d.get(k, def)
Get(d, k, def) == IF k \in DOMAIN d THEN d[k] ELSE def

\* d[k] = v
SetKey(d, k, v) == [x \in DOMAIN d \cup {k} |-> IF x = k THEN v ELSE d[x]]

\* bool(d) of an Optional[dict]: None and the empty dict are falsy.
Truthy(o) == o # None /\ DOMAIN Val(o) # {}

\* All dicts whose keys are a subset of keys, key k taking its values in dom[k].
RECURSIVE DictsOver(_, _)
DictsOver(keys, dom) ==
    IF keys = {} THEN {EmptyDict}
    ELSE LET k == CHOOSE x \in keys : TRUE
             rest == DictsOver(keys \ {k}, dom)
         IN  rest \cup {SetKey(d, k, v) : d \in rest, v \in dom[k]}

\* sorted(S) of a finite set of integers.
RECURSIVE SortedSeq(_)
SortedSeq(S) ==
    IF S = {} THEN <<>>
    ELSE LET m == CHOOSE a \in S : \A b \in S : a <= b
         IN  <<m>> \o SortedSeq(S \ {m})

\* The elements of a sequence, as a set.
Range(s) == {s[i] : i \in DOMAIN s}

\* All sequences over S of length at most n.
SeqsUpTo(S, n) == UNION {[1..k -> S] : k \in 0..n}

\* ------------------------------------------------------------------ state
VARIABLES
    fs_all_pages,   \* output_dir / "all_pages.json": None (no file) or Some(document)
    fs_triage,      \* output_dir / "triage.json": None (no file) or Some(triage)
    heap,           \* the element objects: heap[o] is the dict of object o
    _all_pages,     \* self._all_pages
    _triage,        \* self._triage
    ai_results,     \* the ai_results dict the caller passed to merge
    ai_given,       \* the contents of that dict at the time of the call
    document_info,  \* the document_info the caller passed to merge
    page_routing,   \* merge's page_routing
    all_elements,   \* merge's all_elements (the list before the sort)
    merge_calls,    \* how often merge was called on this merger
    result,         \* what merge returned: None before the call
    log,            \* the warnings logged so far
    \* ---- the output directory and the last call of write_output
    files,          \* the files of the output directory: name -> contents
    output_path,    \* the output_path passed to write_output: None before the call
    formats,        \* the formats passed to write_output
    \* ---- HybridPipeline, the arguments and the locals of process
    pdf_exists,     \* the file names at which a PDF exists
    keep_intermediate,  \* config.keep_intermediate
    temp_dir,       \* config.temp_dir: None or Some("configured")
    pdf_path,       \* the file name of the pdf_path of the last call: None before
    format,         \* its format: None, <<"str", s>> or <<"list", l>>
    output_dir,     \* whether it has an output_dir
    pc,             \* the phase process is in: "idle" outside a call
    outcome,        \* how the last call ended: "none" before
    phases,         \* the phases of the last call, in the order they began
    _metrics,       \* self._metrics
    _temp_dir,      \* self._temp_dir: None or Some("work")
    work_dir,       \* whether the work directory exists
    jar_runs,       \* how often the JAR was run
    triage,         \* process's triage
    todo,           \* page_numbers: the pages the loop of _process_ai_pages visits
    task,           \* task[i]: how far the loop is with todo[i]: "pending",
                    \* "running", "done" or "failed"
    results,        \* _process_ai_pages's results
    \* ---- ModelRegistry and the model adapters
    _instances,     \* ModelRegistry._instances: class name -> adapter object
    adapters,       \* the adapter objects: adapters[a] is [cls, _model]
    calls           \* the calls made on the registry and the adapters, in order

mergerVars == <<fs_all_pages, fs_triage, heap, _all_pages, _triage, ai_results,
                ai_given, document_info, page_routing, all_elements, merge_calls, result, log>>

outputVars == <<files, output_path, formats>>

modelVars == <<_instances, adapters, calls>>

\* The configuration and the models: what neither the merger nor process
\* writes.
fixedVars == <<keep_intermediate, temp_dir, modelVars>>

processVars == <<pdf_exists, keep_intermediate, temp_dir, pdf_path, format,
                 output_dir, pc, outcome, phases, _metrics, _temp_dir, work_dir,
                 jar_runs, triage, todo, task, results>>

pipelineVars == <<processVars, modelVars>>

vars == <<mergerVars, outputVars, pipelineVars>>


\* ------------------------------------------------------------ the loaders
\* json.load: every element dict of "kids" becomes a fresh object on the heap,
\* and the loaded document refers to these objects.
Loaded(h, doc) ==
    IF "kids" \in DOMAIN doc
    THEN [doc EXCEPT !["kids"] = [i \in 1..Len(doc["kids"]) |-> Len(h) + i]]
    ELSE doc

LoadedHeap(h, doc) ==
    IF "kids" \in DOMAIN doc THEN h \o doc["kids"] ELSE h

\* ResultMerger.load_all_pages: the new self._all_pages, heap and log, and
\* the value returned.
load_all_pages(fs, self_all_pages, h, lg) ==
    IF fs = None
    THEN [all_pages |-> self_all_pages,
          heap      |-> h,
          log       |-> Append(lg, <<"all_pages.json not found", 0>>),
          ret       |-> [kids |-> <<>>]]
    ELSE [all_pages |-> Some(Loaded(h, Val(fs))),
          heap      |-> LoadedHeap(h, Val(fs)),
          log       |-> lg,
          ret       |-> Loaded(h, Val(fs))]

\* Mutant of load_triage: a missing file is passed over in silence.
load_triage_Silent(fs, self_triage, lg) ==
    IF fs = None
    THEN [triage |-> self_triage, log |-> lg, ret |-> [pages |-> <<>>]]
    ELSE [triage |-> fs, log |-> lg, ret |-> Val(fs)]

\* ResultMerger.load_triage: the new self._triage and log, and the value
\* returned.
load_triage(fs, self_triage, lg) ==
    IF fs = None
    THEN [triage |-> self_triage,
          log    |-> Append(lg, <<"triage.json not found", 0>>),
          ret    |-> [pages |-> <<>>]]
    ELSE [triage |-> fs,
          log    |-> lg,
          ret    |-> Val(fs)]

\* ------------------------------------------------------------ the routing
\* Mutant of RouteEntry: an entry without a path is routed "ai".
RouteEntry_DefaultAi(routing, page_info) ==
    SetKey(routing, Get(page_info, "page", 0), Get(page_info, "path", "ai"))

\* The loop body of _build_page_routing: routing[page_num] = path.
RouteEntry(routing, page_info) ==
    SetKey(routing, Get(page_info, "page", 0), Get(page_info, "path", "fast"))

RECURSIVE RouteAll(_, _)
RouteAll(routing, pages) ==
    IF pages = <<>> THEN routing
    ELSE RouteAll(RouteEntry(routing, Head(pages)), Tail(pages))

\* ResultMerger._build_page_routing
_build_page_routing(self_triage) ==
    IF Truthy(self_triage) /\ "pages" \in DOMAIN Val(self_triage)
    THEN RouteAll(EmptyDict, Val(self_triage)["pages"])
    ELSE EmptyDict

\* page_routing.get(page_num, "fast")
PathOf(routing, page_num) == Get(routing, page_num, "fast")

\* ------------------------------------------------------------ the metadata
MetaStrKeys == {"author", "title", "creation date", "modification date"}
MetaKeys == {"file name", "number of pages"} \cup MetaStrKeys

\* The six metadata fields read from one dict, as both branches of
\* _init_result read them.
MetaFrom(d) ==
    [k \in MetaKeys |->
        IF k = "file name" THEN Get(d, k, "")
        ELSE IF k = "number of pages" THEN Get(d, k, 0)
        ELSE Get(d, k, Null)]

DefaultMeta ==
    [k \in MetaKeys |->
        IF k = "file name" THEN ""
        ELSE IF k = "number of pages" THEN 0
        ELSE Null]

\* ResultMerger._init_result, without the empty "kids" it starts with.
_init_result(info, self_all_pages) ==
    IF Truthy(info) THEN MetaFrom(Val(info))
    ELSE IF Truthy(self_all_pages) THEN MetaFrom(Val(self_all_pages))
    ELSE DefaultMeta

\* ------------------------------------------------------- _merge_elements
\* element.get("page number", 1)
ElementPage(e) == Get(e, "page number", 1)

\* The "kids" list _merge_elements groups: empty unless self._all_pages is
\* truthy and has the key.
Kids(self_all_pages) ==
    IF Truthy(self_all_pages) /\ "kids" \in DOMAIN Val(self_all_pages)
    THEN Val(self_all_pages)["kids"]
    ELSE <<>>

\* Mutant of GroupElement: the page's list is replaced, not extended.
GroupElement_Overwrite(jar, h, o) ==
    SetKey(jar, ElementPage(h[o]), <<o>>)

\* One step of the grouping loop: jar_by_page[page_num].append(element).
GroupElement(jar, h, o) ==
    LET page_num == ElementPage(h[o])
    IN  SetKey(jar, page_num, Append(Get(jar, page_num, <<>>), o))

RECURSIVE GroupAll(_, _, _)
GroupAll(jar, h, kids) ==
    IF kids = <<>> THEN jar
    ELSE GroupAll(GroupElement(jar, h, Head(kids)), h, Tail(kids))

\* jar_by_page
jar_by_page(h, self_all_pages) == GroupAll(EmptyDict, h, Kids(self_all_pages))

\* Mutant of all_page_nums: the pages of the fast-path document are left out.
all_page_nums_NoJar(routing, jar, ai) ==
    DOMAIN routing \cup {p + 1 : p \in DOMAIN ai}

\* all_page_nums
all_page_nums(routing, jar, ai) ==
    DOMAIN routing \cup DOMAIN jar \cup {p + 1 : p \in DOMAIN ai}

\* The AI branch: every element of the AI result is stamped with the page
\* number and appended.  acc is [elements, heap, log].
RECURSIVE StampAll(_, _, _)
StampAll(acc, elems, page_num) ==
    IF elems = <<>> THEN acc
    ELSE StampAll(
            [acc EXCEPT
                !.heap = [@ EXCEPT ![Head(elems)] = SetKey(@, "page number", page_num)],
                !.elements = Append(@, Head(elems))],
            Tail(elems), page_num)

\* Mutant of UseAI: setdefault, an element keeps the page number it carries.
UseAI_SetDefault(acc, ai_result, page_num) ==
    LET elems == Get(ai_result, "elements", <<>>)
    IN  [acc EXCEPT
            !.heap = [o \in DOMAIN @ |->
                        IF o \in Range(elems) /\ "page number" \notin DOMAIN @[o]
                        THEN SetKey(@[o], "page number", page_num)
                        ELSE @[o]],
            !.elements = @ \o elems]

UseAI(acc, ai_result, page_num) ==
    StampAll(acc, Get(ai_result, "elements", <<>>), page_num)

\* elements.extend(jar_by_page[page_num]) if the page has fast-path elements.
UseJar(acc, jar, page_num) ==
    IF page_num \in DOMAIN jar
    THEN [acc EXCEPT !.elements = @ \o jar[page_num]]
    ELSE acc

\* Mutant of Fallback: the warning only.
Fallback_WarnOnly(acc, jar, page_num) ==
    [acc EXCEPT !.log = Append(@, <<"AI result missing", page_num>>)]

\* Mutant of Fallback: the warning is logged only when the page has fast-path
\* elements to fall back to.
Fallback_WarnIfContent(acc, jar, page_num) ==
    IF page_num \in DOMAIN jar
    THEN UseJar([acc EXCEPT !.log = Append(@, <<"AI result missing", page_num>>)],
                jar, page_num)
    ELSE acc

\* The fallback branch: the warning, then the fast-path elements.
Fallback(acc, jar, page_num) ==
    UseJar([acc EXCEPT !.log = Append(@, <<"AI result missing", page_num>>)],
           jar, page_num)

\* Mutant of MergePage: the AI elements are added to the fast-path elements
\* of the page instead of replacing them.
MergePage_KeepJar(acc, routing, ai, jar, page_num) ==
    IF PathOf(routing, page_num) = "ai"
    THEN IF page_num - 1 \in DOMAIN ai
         THEN UseJar(UseAI(acc, ai[page_num - 1], page_num), jar, page_num)
         ELSE Fallback(acc, jar, page_num)
    ELSE UseJar(acc, jar, page_num)

\* The body of the loop over sorted(all_page_nums).
MergePage(acc, routing, ai, jar, page_num) ==
    IF PathOf(routing, page_num) = "ai"
    THEN IF page_num - 1 \in DOMAIN ai
         THEN UseAI(acc, ai[page_num - 1], page_num)
         ELSE Fallback(acc, jar, page_num)
    ELSE UseJar(acc, jar, page_num)

RECURSIVE MergePages(_, _, _, _, _)
MergePages(acc, routing, ai, jar, pages) ==
    IF pages = <<>> THEN acc
    ELSE MergePages(MergePage(acc, routing, ai, jar, Head(pages)),
                    routing, ai, jar, Tail(pages))

\* ResultMerger._merge_elements: the list, and the heap and log it leaves.
_merge_elements(h, lg, self_all_pages, routing, ai) ==
    LET jar == jar_by_page(h, self_all_pages)
    IN  MergePages([elements |-> <<>>, heap |-> h, log |-> lg], routing, ai, jar,
                   SortedSeq(all_page_nums(routing, jar, ai)))

\* -------------------------------------------------------- _sort_elements
\* Mutant of sort_key: x before y.
sort_key_XY(e) ==
    LET bbox == Get(e, "bounding box", <<0, 0, 0, 0>>)
        y == IF Len(bbox) > 1 THEN bbox[2] ELSE 0
        x == IF Len(bbox) > 0 THEN bbox[1] ELSE 0
    IN  <<ElementPage(e), x, y>>

\* sort_key: (page, y, x), a missing box or coordinate counting as 0.
sort_key(e) ==
    LET bbox == Get(e, "bounding box", <<0, 0, 0, 0>>)
        y == IF Len(bbox) > 1 THEN bbox[2] ELSE 0
        x == IF Len(bbox) > 0 THEN bbox[1] ELSE 0
    IN  <<ElementPage(e), y, x>>

\* Python's order on tuples of numbers: k1 < k2.
KeyLess(k1, k2) ==
    \/ k1[1] < k2[1]
    \/ k1[1] = k2[1] /\ k1[2] < k2[2]
    \/ k1[1] = k2[1] /\ k1[2] = k2[2] /\ k1[3] < k2[3]

\* Mutant of InsertByKey: an element goes before the elements of equal key.
RECURSIVE InsertByKey_BeforeEqual(_, _, _)
InsertByKey_BeforeEqual(h, placed, o) ==
    IF placed = <<>> THEN <<o>>
    ELSE IF ~KeyLess(sort_key(h[Head(placed)]), sort_key(h[o]))
         THEN <<o>> \o placed
         ELSE <<Head(placed)>> \o InsertByKey_BeforeEqual(h, Tail(placed), o)

\* sorted() is stable: an element goes behind every element already placed
\* whose key is not greater than its own.
RECURSIVE InsertByKey(_, _, _)
InsertByKey(h, placed, o) ==
    IF placed = <<>> THEN <<o>>
    ELSE IF KeyLess(sort_key(h[o]), sort_key(h[Head(placed)]))
         THEN <<o>> \o placed
         ELSE <<Head(placed)>> \o InsertByKey(h, Tail(placed), o)

RECURSIVE SortFrom(_, _, _)
SortFrom(h, placed, rest) ==
    IF rest = <<>> THEN placed
    ELSE SortFrom(h, InsertByKey(h, placed, Head(rest)), Tail(rest))

\* ResultMerger._sort_elements
_sort_elements(h, elements) == SortFrom(h, <<>>, elements)

\* ----------------------------------------------------------- _assign_ids
\* enumerate(elements, start=1): element["id"] = idx, one element at a time.
RECURSIVE AssignFrom(_, _, _)
AssignFrom(h, elements, idx) ==
    IF idx > Len(elements) THEN h
    ELSE AssignFrom([h EXCEPT ![elements[idx]] = SetKey(@, "id", idx)],
                    elements, idx + 1)

\* Mutant of _assign_ids: the ids go on after the largest id the elements
\* carry.
_assign_ids_AfterExisting(h, elements) ==
    LET carried == {h[elements[i]]["id"] :
                       i \in {j \in DOMAIN elements : "id" \in DOMAIN h[elements[j]]}}
        last == IF carried = {} THEN 0
                ELSE CHOOSE a \in carried : \A b \in carried : b <= a
    IN  [o \in DOMAIN h |->
            IF o \in Range(elements)
            THEN SetKey(h[o], "id",
                        last + (CHOOSE i \in DOMAIN elements :
                                   elements[i] = o
                                   /\ \A j \in DOMAIN elements :
                                        elements[j] = o => j <= i))
            ELSE h[o]]

\* Mutant of _assign_ids: an element that carries an id keeps it.
_assign_ids_KeepExisting(h, elements) ==
    [o \in DOMAIN h |->
        IF o \in Range(elements) /\ "id" \notin DOMAIN h[o]
        THEN SetKey(h[o], "id", CHOOSE i \in DOMAIN elements : elements[i] = o)
        ELSE h[o]]

\* ResultMerger._assign_ids: the heap it leaves (the list itself is returned
\* unchanged).
_assign_ids(h, elements) == AssignFrom(h, elements, 1)

\* ----------------------------------------------------------------- strings
\* A str is a sequence of tokens: single characters where the code looks at
\* characters, whole literals elsewhere.  Str(s) is the str of one token.
Str(s) == <<s>>

RECURSIVE Concat(_)
Concat(strs) == IF strs = <<>> THEN <<>> ELSE Head(strs) \o Concat(Tail(strs))

\* sep.join(strs)
RECURSIVE Join(_, _)
Join(sep, strs) ==
    IF strs = <<>> THEN <<>>
    ELSE IF Len(strs) = 1 THEN Head(strs)
    ELSE Head(strs) \o sep \o Join(sep, Tail(strs))

\* text.replace(old, new) for a one-character old.
RECURSIVE Replace(_, _, _)
Replace(text, old, new) ==
    IF text = <<>> THEN <<>>
    ELSE (IF Head(text) = old THEN new ELSE <<Head(text)>>)
         \o Replace(Tail(text), old, new)

\* Mutant of _escape_html: nothing is escaped.
_escape_html_Raw(text) == text

\* Mutant of _escape_html: the ampersand is replaced last.
_escape_html_AmpLast(text) ==
    Replace(Replace(Replace(Replace(text, "<", <<"&", "lt;">>),
                            ">", <<"&", "gt;">>),
                    "\"", <<"&", "quot;">>),
            "&", <<"&", "amp;">>)

\* ResultMerger._escape_html
_escape_html(text) ==
    Replace(Replace(Replace(Replace(text, "&", <<"&", "amp;">>),
                            "<", <<"&", "lt;">>),
                    ">", <<"&", "gt;">>),
            "\"", <<"&", "quot;">>)

\* -------------------------------------------------------------- the tables
\* The loop over cells: rows[row][col] = content, and max_col.
\* acc is [rows, max_col].
RegisterCell(acc, cell) ==
    LET row == Get(cell, "row", 0)
        col == Get(cell, "column", 0)
        content == Get(cell, "content", <<>>)
    IN  [rows    |-> SetKey(acc.rows, row, SetKey(Get(acc.rows, row, EmptyDict), col, content)),
         max_col |-> IF col > acc.max_col THEN col ELSE acc.max_col]

RECURSIVE RegisterAll(_, _)
RegisterAll(acc, cells) ==
    IF cells = <<>> THEN acc
    ELSE RegisterAll(RegisterCell(acc, Head(cells)), Tail(cells))

TableGrid(cells) == RegisterAll([rows |-> EmptyDict, max_col |-> 0], cells)

\* The Markdown line of one row, with the separator line behind the first.
MarkdownRow(grid, row_idx, first) ==
    LET row_cells == [c \in 1..(grid.max_col + 1) |->
                         Replace(Get(grid.rows[row_idx], c - 1, <<>>), "|", <<"\\", "|">>)]
        line == <<"| ">> \o Join(<<" | ">>, row_cells) \o <<" |">>
        separator == <<"| ">>
                     \o Join(<<" | ">>, [c \in 1..(grid.max_col + 1) |-> <<"---">>])
                     \o <<" |">>
    IN  IF first THEN <<line, separator>> ELSE <<line>>

\* Mutant of _table_to_markdown: a row ends with its last cell.
_table_to_markdown_Ragged(table_element) ==
    LET cells == Get(table_element, "cells", <<>>)
        grid == TableGrid(cells)
        row_idxs == SortedSeq(DOMAIN grid.rows)
        width(r) == [grid EXCEPT !.max_col =
                        CHOOSE m \in DOMAIN grid.rows[r] :
                            \A c \in DOMAIN grid.rows[r] : c <= m]
    IN  IF cells = <<>> THEN <<Get(table_element, "content", <<>>)>>
        ELSE Concat([i \in DOMAIN row_idxs |->
                        MarkdownRow(width(row_idxs[i]), row_idxs[i], i = 1)])

\* ResultMerger._table_to_markdown: the lines of the string it returns.
_table_to_markdown(table_element) ==
    LET cells == Get(table_element, "cells", <<>>)
        grid == TableGrid(cells)
        row_idxs == SortedSeq(DOMAIN grid.rows)
    IN  IF cells = <<>> THEN <<Get(table_element, "content", <<>>)>>
        ELSE Concat([i \in DOMAIN row_idxs |-> MarkdownRow(grid, row_idxs[i], i = 1)])

\* Mutant of HtmlRow: the first row is rendered like the others.
HtmlRow_AllTd(grid, row_idx, i) ==
    <<Str("  <tr>")>>
    \o [c \in 1..(grid.max_col + 1) |->
           <<"    <", "td", ">">>
           \o _escape_html(Get(grid.rows[row_idx], c - 1, <<>>))
           \o <<"</", "td", ">">>]
    \o <<Str("  </tr>")>>

\* The HTML lines of one row.
HtmlRow(grid, row_idx, i) ==
    LET tag == IF i = 0 THEN "th" ELSE "td"
    IN  <<Str("  <tr>")>>
        \o [c \in 1..(grid.max_col + 1) |->
               <<"    <", tag, ">">>
               \o _escape_html(Get(grid.rows[row_idx], c - 1, <<>>))
               \o <<"</", tag, ">">>]
        \o <<Str("  </tr>")>>

\* ResultMerger._table_to_html: the lines of the string it returns.
_table_to_html(table_element) ==
    LET cells == Get(table_element, "cells", <<>>)
        grid == TableGrid(cells)
        row_idxs == SortedSeq(DOMAIN grid.rows)
    IN  IF cells = <<>>
        THEN <<<<"<p>">> \o _escape_html(Get(table_element, "content", <<>>)) \o <<"</p>">>>>
        ELSE <<Str("<table>")>>
             \o Concat([i \in DOMAIN row_idxs |-> HtmlRow(grid, row_idxs[i], i - 1)])
             \o <<Str("</table>")>>

\* ----------------------------------------------------------- the renderers
\* min(max(level, 1), 6)
ClampLevel(level) == IF level < 1 THEN 1 ELSE IF level > 6 THEN 6 ELSE level

\* The token of the code fence, three backticks.
Fence == "(fence)"

\* The lines _to_markdown appends for one element.
MarkdownLines(element) ==
    LET elem_type == Get(element, "type", "")
        content == Get(element, "content", <<>>)
    IN  IF elem_type = "heading"
        THEN <<[i \in 1..ClampLevel(Get(element, "heading level", 1)) |-> "#"]
               \o <<" ">> \o content, <<>>>>
        ELSE IF elem_type = "paragraph" THEN <<content, <<>>>>
        ELSE IF elem_type = "list item" THEN <<<<"- ">> \o content>>
        ELSE IF elem_type = "table" THEN _table_to_markdown(element) \o <<<<>>>>
        ELSE IF elem_type = "image"
        THEN <<<<"![">> \o Get(element, "alt text", Str("image")) \o <<"]()">>, <<>>>>
        ELSE IF elem_type = "code" THEN <<Str(Fence), content, Str(Fence), <<>>>>
        ELSE IF content # <<>> THEN <<content, <<>>>>
        ELSE <<>>

RECURSIVE MarkdownFrom(_, _, _)
MarkdownFrom(lines, current_page, kids) ==
    IF kids = <<>> THEN lines
    ELSE LET page_num == Get(Head(kids), "page number", 1)
             separator == IF page_num # current_page /\ current_page > 0
                          THEN <<<<>>>> ELSE <<>>
         IN  MarkdownFrom(lines \o separator \o MarkdownLines(Head(kids)),
                          page_num, Tail(kids))

\* ResultMerger._to_markdown: the lines of the string it returns.
_to_markdown(doc) == MarkdownFrom(<<>>, 0, Get(doc, "kids", <<>>))

\* f"{level}" for a clamped level.
LevelDigit == <<"1", "2", "3", "4", "5", "6">>

\* The line _to_html appends for one element, if any.
HtmlLines(element) ==
    LET elem_type == Get(element, "type", "")
        content == Get(element, "content", <<>>)
        level == ClampLevel(Get(element, "heading level", 1))
    IN  IF elem_type = "heading"
        THEN <<<<"<h", LevelDigit[level], ">">> \o _escape_html(content)
               \o <<"</h", LevelDigit[level], ">">>>>
        ELSE IF elem_type = "paragraph"
        THEN <<<<"<p>">> \o _escape_html(content) \o <<"</p>">>>>
        ELSE IF elem_type = "list item"
        THEN <<<<"<li>">> \o _escape_html(content) \o <<"</li>">>>>
        ELSE IF elem_type = "table" THEN _table_to_html(element)
        ELSE IF elem_type = "image"
        THEN <<<<"<img src=\"\" alt=\"">>
               \o _escape_html(Get(element, "alt text", Str("image"))) \o <<"\">">>>>
        ELSE IF elem_type = "code"
        THEN <<<<"<pre><code>">> \o _escape_html(content) \o <<"</code></pre>">>>>
        ELSE IF content # <<>>
        THEN <<<<"<p>">> \o _escape_html(content) \o <<"</p>">>>>
        ELSE <<>>

\* result.get("title") or result.get("file name", "Document"), a str of one
\* token.
HtmlTitle(doc) ==
    LET title == Get(doc, "title", Null)
    IN  IF title # Null /\ title # "" THEN Str(title)
        ELSE Str(Get(doc, "file name", "Document"))

HtmlHead(doc) ==
    <<Str("<!DOCTYPE html>"), Str("<html>"), Str("<head>"),
      <<"  <title>">> \o _escape_html(HtmlTitle(doc)) \o <<"</title>">>,
      Str("  <meta charset=\"utf-8\">"), Str("  <style>"),
      Str("    body { font-family: sans-serif; max-width: 800px; margin: 0 auto; padding: 20px; }"),
      Str("    table { border-collapse: collapse; width: 100%; margin: 1em 0; }"),
      Str("    th, td { border: 1px solid #ddd; padding: 8px; text-align: left; }"),
      Str("    th { background-color: #f2f2f2; }"),
      Str("    img { max-width: 100%; }"),
      Str("    pre { background-color: #f4f4f4; padding: 10px; overflow-x: auto; }"),
      Str("  </style>"), Str("</head>"), Str("<body>")>>

\* ResultMerger._to_html: the lines of the string it returns.
_to_html(doc) ==
    LET kids == Get(doc, "kids", <<>>)
    IN  HtmlHead(doc)
        \o Concat([i \in DOMAIN kids |-> HtmlLines(kids[i])])
        \o <<Str("</body>"), Str("</html>")>>

\* ------------------------------------------------------------------- paths
\* A file name is a str of the characters "." and others.  The index of the
\* dot that starts the suffix: the last dot, unless it is the first or the
\* last character (pathlib.PurePath.suffix); 0 when there is none.
SuffixStart(name) ==
    LET dots == {i \in DOMAIN name : name[i] = "."}
        last == CHOOSE i \in dots : \A j \in dots : j <= i
    IN  IF dots # {} /\ 1 < last /\ last < Len(name) THEN last ELSE 0

\* PurePath.stem
stem(name) ==
    IF SuffixStart(name) = 0 THEN name ELSE SubSeq(name, 1, SuffixStart(name) - 1)

\* Mutant of with_suffix: the suffix is appended to the name as it is.
with_suffix_Append(name, suffix) == name \o suffix

\* PurePath.with_suffix: the suffix of the name is replaced; a name without
\* a suffix gets the new one appended.
with_suffix(name, suffix) == stem(name) \o suffix

\* ------------------------------------------------------------ write_output
\* str.lower on the format names used here.
lower(fmt) ==
    IF fmt = "JSON" THEN "json"
    ELSE IF fmt = "Markdown" THEN "markdown"
    ELSE IF fmt = "MD" THEN "md"
    ELSE IF fmt = "Html" THEN "html"
    ELSE fmt

\* json.dump(result): the document with the element dicts in place of the
\* element objects.
Document(h, r) ==
    IF "kids" \in DOMAIN r
    THEN [r EXCEPT !["kids"] = [i \in DOMAIN @ |-> h[@[i]]]]
    ELSE r

\* Mutant of WriteFormat: format names are compared as they are written.
WriteFormat_CaseSensitive(fls, doc, base_path, fmt) ==
    IF fmt = "json"
    THEN SetKey(fls, with_suffix(base_path, <<".", "json">>), <<"json", doc>>)
    ELSE IF fmt \in {"markdown", "md"}
    THEN SetKey(fls, with_suffix(base_path, <<".", "md">>), <<"md", _to_markdown(doc)>>)
    ELSE IF fmt = "html"
    THEN SetKey(fls, with_suffix(base_path, <<".", "html">>), <<"html", _to_html(doc)>>)
    ELSE fls

\* The body of the loop over formats: the files after it.
WriteFormat(fls, doc, base_path, fmt) ==
    LET fmt_lower == lower(fmt)
    IN  IF fmt_lower = "json"
        THEN SetKey(fls, with_suffix(base_path, <<".", "json">>), <<"json", doc>>)
        ELSE IF fmt_lower \in {"markdown", "md"}
        THEN SetKey(fls, with_suffix(base_path, <<".", "md">>), <<"md", _to_markdown(doc)>>)
        ELSE IF fmt_lower = "html"
        THEN SetKey(fls, with_suffix(base_path, <<".", "html">>), <<"html", _to_html(doc)>>)
        ELSE fls

RECURSIVE WriteFormats(_, _, _, _)
WriteFormats(fls, doc, base_path, fmts) ==
    IF fmts = <<>> THEN fls
    ELSE WriteFormats(WriteFormat(fls, doc, base_path, Head(fmts)), doc, base_path,
                      Tail(fmts))

\* ResultMerger.write_output: the files of the output directory after it.
\* fmts is None or Some(list).
write_output(fls, doc, path, fmts) ==
    WriteFormats(fls, doc, with_suffix(path, <<>>),
                 IF fmts = None THEN <<"json">> ELSE Val(fmts))

\* process, "Normalize format to list": output_formats.
output_formats(fmt) ==
    LET given == IF fmt = None THEN <<>>
                 ELSE IF fmt[1] = "str" THEN (IF fmt[2] = "" THEN <<>> ELSE <<fmt[2]>>)
                 ELSE fmt[2]
    IN  IF given = <<>> THEN <<"json">> ELSE given

\* process: user_output_dir / f"{pdf_path.stem}.json"
process_output_path(name) == stem(name) \o <<".", "json">>

\* ------------------------------------------------------------------ merge
\* The caller's ai_results: its element dicts are objects on the heap, in
\* the order of the page indices.
RECURSIVE AllocAI(_, _, _)
AllocAI(acc, ai, idxs) ==
    IF idxs = <<>> THEN acc
    ELSE LET r == ai[Head(idxs)]
         IN  AllocAI([heap |-> LoadedHeap(acc.heap, [kids |-> Get(r, "elements", <<>>)]),
                      ai   |-> SetKey(acc.ai, Head(idxs),
                                 IF "elements" \in DOMAIN r
                                 THEN [r EXCEPT !["elements"] =
                                         [i \in 1..Len(r["elements"]) |-> Len(acc.heap) + i]]
                                 ELSE r)],
                     ai, Tail(idxs))

\* ResultMerger.merge: everything the call leaves behind.
merge(fs_ap, fs_tr, self_all_pages, self_triage, h, lg, ai, info) ==
    LET la == IF self_all_pages = None
              THEN load_all_pages(fs_ap, self_all_pages, h, lg)
              ELSE [all_pages |-> self_all_pages, heap |-> h, log |-> lg]
        lt == IF self_triage = None
              THEN load_triage(fs_tr, self_triage, la.log)
              ELSE [triage |-> self_triage, log |-> la.log]
        routing == _build_page_routing(lt.triage)
        meta == _init_result(info, la.all_pages)
        m == _merge_elements(la.heap, lt.log, la.all_pages, routing, ai)
        sorted_elements == _sort_elements(m.heap, m.elements)
    IN  [all_pages    |-> la.all_pages,
         triage       |-> lt.triage,
         page_routing |-> routing,
         all_elements |-> m.elements,
         heap         |-> _assign_ids(m.heap, sorted_elements),
         log          |-> m.log,
         result       |-> SetKey(meta, "kids", sorted_elements)]

\* ---------------------------------------------------------------- actions
\* A call of load_all_pages by the user of the merger, before merge.
LoadAllPages ==
    /\ result = None
    /\ _all_pages = None
    /\ <<"all_pages.json not found", 0>> \notin Range(log)
    /\ LET r == load_all_pages(fs_all_pages, _all_pages, heap, log)
       IN  /\ _all_pages' = r.all_pages
           /\ heap' = r.heap
           /\ log' = r.log
    /\ UNCHANGED <<fs_all_pages, fs_triage, _triage, ai_results, ai_given,
                   document_info, page_routing, all_elements, merge_calls, result>>
    /\ UNCHANGED <<outputVars, pipelineVars>>

\* A call of load_triage by the user of the merger, before merge.
LoadTriage ==
    /\ result = None
    /\ _triage = None
    /\ <<"triage.json not found", 0>> \notin Range(log)
    /\ LET r == load_triage(fs_triage, _triage, log)
       IN  /\ _triage' = r.triage
           /\ log' = r.log
    /\ UNCHANGED <<fs_all_pages, fs_triage, heap, _all_pages, ai_results, ai_given,
                   document_info, page_routing, all_elements, merge_calls, result>>
    /\ UNCHANGED <<outputVars, pipelineVars>>

\* The call merge(ai, info), ai holding element dicts of the caller.
MergeCall(ai, info) ==
    /\ result = None
    /\ \E a \in {AllocAI([heap |-> heap, ai |-> EmptyDict], ai, SortedSeq(DOMAIN ai))} :
       \E r \in {merge(fs_all_pages, fs_triage, _all_pages, _triage, a.heap, log,
                        a.ai, info)} :
           /\ ai_results' = a.ai
           /\ ai_given' = ai
           /\ document_info' = info
           /\ _all_pages' = r.all_pages
           /\ _triage' = r.triage
           /\ page_routing' = r.page_routing
           /\ all_elements' = r.all_elements
           /\ merge_calls' = merge_calls + 1
           /\ heap' = r.heap
           /\ log' = r.log
           /\ result' = Some(r.result)
    /\ UNCHANGED <<fs_all_pages, fs_triage>>

\* The merger as constructed: nothing loaded, nothing merged.
InitMerger ==
    /\ heap = <<>>
    /\ _all_pages = None
    /\ _triage = None
    /\ ai_results = EmptyDict
    /\ ai_given = EmptyDict
    /\ document_info = None
    /\ page_routing = EmptyDict
    /\ all_elements = <<>>
    /\ merge_calls = 0
    /\ result = None
    /\ log = <<>>

\* The call write_output(result, path, fmts) on the merged result.
WriteOutput(path, fmts) ==
    /\ result # None
    /\ output_path = None
    /\ files' = write_output(files, Document(heap, Val(result)), path, fmts)
    /\ output_path' = Some(path)
    /\ formats' = fmts
    /\ UNCHANGED <<mergerVars, pipelineVars>>

\* An empty output directory, write_output not called.
InitOutput ==
    /\ files = EmptyDict
    /\ output_path = None
    /\ formats = None

\* No adapter made and none registered.
NoModels ==
    /\ _instances = EmptyDict
    /\ adapters = <<>>
    /\ calls = <<>>

\* The pipeline as constructed: process not called.
InitPipeline ==
    /\ NoModels
    /\ pdf_path = None
    /\ format = None
    /\ output_dir = FALSE
    /\ pc = "idle"
    /\ outcome = "none"
    /\ phases = <<>>
    /\ _metrics = None
    /\ _temp_dir = None
    /\ work_dir = FALSE
    /\ jar_runs = 0
    /\ triage = None
    /\ todo = <<>>
    /\ task = <<>>
    /\ results = EmptyDict

\* A ResultMerger used on its own: no pipeline around it.
MergerAlone ==
    /\ InitMerger
    /\ InitOutput
    /\ InitPipeline
    /\ pdf_exists = {}
    /\ keep_intermediate = FALSE
    /\ temp_dir = None

\* ------------------------------------------------------------ TableAdapter
\* A detected table is a dict of its attributes: "cells", the detected
\* cells, each a dict of the attributes row, col, text.
\* The dict of one cell in _extract_table_rows.
CellDict(cell, row_idx) ==
    ("row number" :> Get(cell, "row", row_idx) + 1)
    @@ ("column number" :> Get(cell, "col", 0) + 1)
    @@ ("row span" :> Get(cell, "row_span", 1))
    @@ ("column span" :> Get(cell, "col_span", 1))
    @@ ("kids" :> <<[type |-> "paragraph", content |-> Get(cell, "text", <<>>)]>>)

\* cells_by_row[row_idx]: the cells of the row, in the order of detection.
CellsOfRow(cells, row_idx) ==
    LET InRow(cell) == Get(cell, "row", 0) = row_idx
    IN  SelectSeq(cells, InRow)

\* TableAdapter._extract_table_rows
_extract_table_rows(table) ==
    IF "cells" \notin DOMAIN table THEN <<>>
    ELSE LET cells == table["cells"]
             row_idxs == SortedSeq({Get(cells[i], "row", 0) : i \in DOMAIN cells})
         IN  [k \in DOMAIN row_idxs |->
                 [cells |-> [j \in DOMAIN CellsOfRow(cells, row_idxs[k]) |->
                               CellDict(CellsOfRow(cells, row_idxs[k])[j], row_idxs[k])]]]

\* max((len(row.get("cells", [])) for row in rows), default=0)
MaxCellCount(rows) ==
    IF rows = <<>> THEN 0
    ELSE CHOOSE n \in {Len(rows[i].cells) : i \in DOMAIN rows} :
             \A i \in DOMAIN rows : Len(rows[i].cells) <= n

\* TableAdapter._get_table_bbox
_get_table_bbox(table, img_width, img_height) ==
    IF "bbox" \in DOMAIN table THEN table["bbox"] ELSE <<0, 0, img_width, img_height>>

\* TableAdapter._convert_table_to_schema
_convert_table_to_schema(table, page_number, img_width, img_height) ==
    LET rows == _extract_table_rows(table)
    IN  ("type" :> "table")
        @@ ("page number" :> page_number + 1)
        @@ ("bounding box" :> _get_table_bbox(table, img_width, img_height))
        @@ ("number of rows" :> Len(rows))
        @@ ("number of columns" :> MaxCellCount(rows))
        @@ ("rows" :> rows)

\* TableAdapter.process on a page image of 1 x 1 on which tables were
\* detected: what it returns.
TableAdapter_process(tables, page_number) ==
    [elements |-> [i \in DOMAIN tables |->
                      _convert_table_to_schema(tables[i], page_number, 1, 1)],
     source   |-> "table"]

\* ---------------------------------------------------------- HybridPipeline
\* PipelineMetrics(): the counts of a run that has just begun.
PipelineMetrics ==
    [total_pages |-> 0, fast_pages |-> 0, ai_pages |-> 0, ai_page_range |-> <<>>,
     items_processed |-> 0]

\* Mutant of Validate: the metrics are initialized ahead of the validation.
Validate_MetricsFirst(existing, name, metrics) ==
    [raised |-> name \notin existing, _metrics |-> Some(PipelineMetrics)]

\* process, from the validation of pdf_path to the new metrics: whether it
\* raised FileNotFoundError, and self._metrics.
Validate(existing, name, metrics) ==
    IF name \notin existing
    THEN [raised |-> TRUE, _metrics |-> metrics]
    ELSE [raised |-> FALSE, _metrics |-> Some(PipelineMetrics)]

\* HybridPipeline._load_triage: the triage data and the log.
_load_triage(fs, lg) ==
    IF fs = None
    THEN [triage |-> [pages |-> <<>>],
          log    |-> Append(lg, <<"triage.json not found, assuming all pages are fast-path", 0>>)]
    ELSE [triage |-> Val(fs), log |-> lg]

\* The entries of the triage list with the given path.
HasPath(page_info, path) == Get(page_info, "path", Null) = path
IsAiPage(page_info) == HasPath(page_info, "ai")
IsFastPage(page_info) == HasPath(page_info, "fast")

\* HybridPipeline._get_ai_pages
_get_ai_pages(tr) == SelectSeq(Get(tr, "pages", <<>>), IsAiPage)

\* sorted(list) of integers.
RECURSIVE Sorted(_)
Sorted(list) ==
    IF list = <<>> THEN <<>>
    ELSE LET rest == Sorted(Tail(list))
             k == Cardinality({i \in DOMAIN rest : rest[i] < Head(list)})
         IN  SubSeq(rest, 1, k) \o <<Head(list)>> \o SubSeq(rest, k + 1, Len(rest))

\* page_numbers = sorted([p["page"] for p in ai_pages])
page_numbers(ai_pages) == Sorted([i \in DOMAIN ai_pages |-> ai_pages[i]["page"]])

\* Mutant of AfterTriage: the AI phase is left out.
AfterTriage_SkipAi(ai_pages) == "merge"

\* process, "if ai_pages": the phase that follows the triage load.
AfterTriage(ai_pages) == IF ai_pages # <<>> THEN "ai_init" ELSE "merge"

\* HybridPipeline._convert_docling_item on a text item: the element.
_convert_docling_item(page_idx) ==
    ("type" :> "paragraph") @@ ("page number" :> page_idx + 1)
    @@ ("bounding box" :> <<0, 0, 0, 0>>) @@ ("content" :> <<"t">>)
    @@ ("font" :> <<>>) @@ ("font size" :> 0) @@ ("text color" :> <<"[0.0]">>)

\* The loop over doc.iterate_items(): the elements appended to the result
\* of the page up to the first item whose conversion raises ("bad": an item
\* whose prov has a bbox of None), and whether one did.
RECURSIVE ConvertItems(_, _, _)
ConvertItems(elements, items, page_idx) ==
    IF items = <<>> THEN [elements |-> elements, raised |-> FALSE]
    ELSE IF Head(items) = "bad" THEN [elements |-> elements, raised |-> TRUE]
    ELSE ConvertItems(Append(elements, _convert_docling_item(page_idx)), Tail(items),
                      page_idx)

\* Mutant of PageOutcome: the entry of a page whose conversion raised is
\* taken out of results again.
PageOutcome_DropPartial(res, page_num, conv) ==
    LET page_idx == page_num - 1
        c == ConvertItems(<<>>, conv.items, page_idx)
    IN  IF conv.raises \/ c.raised
        THEN [results |-> [i \in DOMAIN res \ {page_idx} |-> res[i]], status |-> "failed"]
        ELSE [results |-> SetKey(res, page_idx, [elements |-> c.elements, page |-> page_idx]),
              status  |-> "done"]

\* The body of the loop of _process_ai_pages for one page: results after it,
\* and whether the body ran to its end ("done") or the except clause caught
\* an exception ("failed"). conv.raises: converter.convert raises;
\* conv.items: the items of the document it returns.
PageOutcome(res, page_num, conv) ==
    LET page_idx == page_num - 1
        c == ConvertItems(<<>>, conv.items, page_idx)
    IN  IF conv.raises
        THEN [results |-> res, status |-> "failed"]
        ELSE [results |-> SetKey(res, page_idx, [elements |-> c.elements, page |-> page_idx]),
              status  |-> IF c.raised THEN "failed" ELSE "done"]

\* Mutant of NextPhase: the loop ends at the first page that failed.
NextPhase_StopAtFailure(tk) ==
    IF (\E i \in DOMAIN tk : tk[i] = "pending") /\ ~(\E i \in DOMAIN tk : tk[i] = "failed")
    THEN "ai" ELSE "merge"

\* The for loop of _process_ai_pages: on to the next page, or back in
\* process and on to the merge.
NextPhase(tk) == IF \E i \in DOMAIN tk : tk[i] = "pending" THEN "ai" ELSE "merge"

\* HybridPipeline._copy_intermediate_files: the output directory after it.
_copy_intermediate_files(fls, ft, fa) ==
    LET with_triage == IF ft = None THEN fls
                       ELSE SetKey(fls, <<"triage", ".", "json">>, <<"json", Val(ft)>>)
    IN  IF fa = None THEN with_triage
        ELSE SetKey(with_triage, <<"all_pages", ".", "json">>, <<"json", Val(fa)>>)

\* process, the finally clause: the work directory is removed unless
\* keep_intermediate is set.
Finally ==
    IF ~keep_intermediate /\ _temp_dir # None
    THEN /\ _temp_dir' = None
         /\ work_dir' = FALSE
         /\ fs_all_pages' = None
         /\ fs_triage' = None
    ELSE UNCHANGED <<_temp_dir, work_dir, fs_all_pages, fs_triage>>

\* HybridPipeline._setup_work_dir: self._temp_dir, the configured directory
\* or one that tempfile.mkdtemp makes.
_setup_work_dir(config_temp_dir) ==
    IF config_temp_dir # None THEN config_temp_dir ELSE Some("hybrid_")

\* The call process(name, output_dir, format=fmt), from the validation of
\* the path to the creation of the output directory.
ProcessCall(name, fmt, outdir) ==
    /\ pc = "idle"
    /\ \E v \in {Validate(pdf_exists, name, _metrics)} :
        /\ _metrics' = v._metrics
        /\ IF v.raised
           THEN /\ outcome' = "FileNotFoundError"
                /\ UNCHANGED <<mergerVars, outputVars, pdf_exists, fixedVars,
                               pdf_path, format, output_dir, pc, phases, _temp_dir,
                               work_dir, jar_runs, triage, todo, task, results>>
           ELSE /\ outcome' = "running"
                /\ pdf_path' = Some(name)
                /\ format' = fmt
                /\ output_dir' = outdir
                /\ pc' = "jar"
                /\ phases' = <<>>
                /\ _temp_dir' = _setup_work_dir(temp_dir)
                /\ work_dir' = TRUE
                /\ fs_all_pages' = None
                /\ fs_triage' = None
                /\ heap' = <<>>
                /\ _all_pages' = None
                /\ _triage' = None
                /\ ai_results' = EmptyDict
                /\ ai_given' = EmptyDict
                /\ document_info' = None
                /\ page_routing' = EmptyDict
                /\ all_elements' = <<>>
                /\ merge_calls' = 0
                /\ result' = None
                /\ triage' = None
                /\ todo' = <<>>
                /\ task' = <<>>
                /\ results' = EmptyDict
                /\ UNCHANGED <<log, outputVars, pdf_exists, fixedVars, jar_runs>>

\* Phase 1, _run_jar_hybrid: the JAR writes triage.json and all_pages.json
\* into the work directory (tr, ap: what it writes, None for no file), or
\* run_jar raises.
RunJar(ok, tr, ap) ==
    /\ pc = "jar"
    /\ phases' = Append(phases, "jar")
    /\ jar_runs' = jar_runs + 1
    /\ IF ok
       THEN /\ fs_triage' = tr
            /\ fs_all_pages' = ap
            /\ pc' = "triage"
            /\ UNCHANGED <<outcome, _temp_dir, work_dir>>
       ELSE /\ pc' = "idle"
            /\ outcome' = "raised"
            /\ Finally
    /\ UNCHANGED <<heap, _all_pages, _triage, ai_results, ai_given, document_info,
                   page_routing, all_elements, merge_calls, result, log, outputVars, pdf_exists,
                   fixedVars, pdf_path, format, output_dir, _metrics, triage,
                   todo, task, results>>

\* Phase 2: the triage is loaded, the pages are counted, and the AI-routed
\* pages are lined up.
LoadTriagePhase ==
    /\ pc = "triage"
    /\ \E lt \in {_load_triage(fs_triage, log)} :
       \E ai_pages \in {_get_ai_pages(lt.triage)} :
        LET all_pages == Get(lt.triage, "pages", <<>>)
            fast_pages == SelectSeq(all_pages, IsFastPage)
        IN  /\ triage' = Some(lt.triage)
            /\ log' = lt.log
            /\ _metrics' = Some([Val(_metrics) EXCEPT
                                   !.total_pages = Len(all_pages),
                                   !.fast_pages = Len(fast_pages),
                                   !.ai_pages = Len(ai_pages),
                                   !.items_processed = Len(fast_pages),
                                   !.ai_page_range = IF ai_pages # <<>>
                                                     THEN page_numbers(ai_pages) ELSE @])
            /\ todo' = page_numbers(ai_pages)
            /\ task' = [i \in DOMAIN ai_pages |-> "pending"]
            /\ pc' = AfterTriage(ai_pages)
    /\ phases' = Append(phases, "triage")
    /\ UNCHANGED <<fs_all_pages, fs_triage, heap, _all_pages, _triage, ai_results,
                   ai_given, document_info, page_routing, all_elements, merge_calls, result,
                   outputVars, pdf_exists, fixedVars, pdf_path, format,
                   output_dir, outcome, _temp_dir, work_dir, jar_runs, results>>

\* Phase 3 begins: _process_ai_pages builds the DocumentConverter, outside
\* the try of the loop; should that raise, process raises.
StartAi(ok) ==
    /\ pc = "ai_init"
    /\ phases' = Append(phases, "ai")
    /\ IF ok
       THEN /\ pc' = "ai"
            /\ UNCHANGED <<outcome, _temp_dir, work_dir, fs_all_pages, fs_triage>>
       ELSE /\ pc' = "idle"
            /\ outcome' = "raised"
            /\ Finally
    /\ UNCHANGED <<heap, _all_pages, _triage, ai_results, ai_given, document_info,
                   page_routing, all_elements, merge_calls, result, log, outputVars, pdf_exists,
                   fixedVars, pdf_path, format, output_dir, _metrics, jar_runs,
                   triage, todo, task, results>>

\* The loop takes up the next page.
StartPage ==
    /\ pc = "ai"
    /\ \A i \in DOMAIN task : task[i] # "running"
    /\ \E i \in DOMAIN task :
        /\ task[i] = "pending"
        /\ \A j \in 1..(i - 1) : task[j] # "pending"
        /\ task' = [task EXCEPT ![i] = "running"]
    /\ UNCHANGED <<mergerVars, outputVars, pdf_exists, fixedVars, pdf_path,
                   format, output_dir, pc, outcome, phases, _metrics, _temp_dir,
                   work_dir, jar_runs, triage, todo, results>>

\* The body of the loop ends for the page it took up, in its try or in its
\* except clause.
FinishPage(conv) ==
    /\ pc = "ai"
    /\ \E i \in DOMAIN task :
        /\ task[i] = "running"
        /\ \E o \in {PageOutcome(results, todo[i], conv)} :
            /\ results' = o.results
            /\ task' = [task EXCEPT ![i] = o.status]
            /\ log' = IF o.status = "failed"
                      THEN Append(log, <<"Error processing page with docling", todo[i]>>)
                      ELSE log
            /\ pc' = NextPhase([task EXCEPT ![i] = o.status])
    /\ UNCHANGED <<fs_all_pages, fs_triage, heap, _all_pages, _triage, ai_results,
                   ai_given, document_info, page_routing, all_elements, merge_calls, result,
                   outputVars, pdf_exists, fixedVars, pdf_path, format,
                   output_dir, outcome, phases, _metrics, _temp_dir, work_dir, jar_runs,
                   triage, todo>>

\* Phase 4: merger = ResultMerger(work_dir); result = merger.merge(ai_results)
MergePhase ==
    /\ pc = "merge"
    /\ MergeCall(results, None)
    /\ phases' = Append(phases, "merge")
    /\ pc' = "write"
    /\ UNCHANGED <<outputVars, pdf_exists, fixedVars, pdf_path, format,
                   output_dir, outcome, _metrics, _temp_dir, work_dir, jar_runs, triage,
                   todo, task, results>>

\* The output is written if there is an output directory, process returns
\* the result, and the finally clause runs.
WritePhase ==
    /\ pc = "write"
    /\ IF output_dir
       THEN /\ phases' = Append(phases, "write")
            /\ \E written \in {write_output(files, Document(heap, Val(result)),
                                            process_output_path(Val(pdf_path)),
                                            Some(output_formats(format)))} :
                 files' = IF keep_intermediate
                          THEN _copy_intermediate_files(written, fs_triage, fs_all_pages)
                          ELSE written
            /\ output_path' = Some(process_output_path(Val(pdf_path)))
            /\ formats' = Some(output_formats(format))
       ELSE UNCHANGED <<phases, outputVars>>
    /\ pc' = "idle"
    /\ outcome' = "returned"
    /\ Finally
    /\ UNCHANGED <<heap, _all_pages, _triage, ai_results, ai_given, document_info,
                   page_routing, all_elements, merge_calls, result, log, pdf_exists,
                   fixedVars, pdf_path, format, output_dir, _metrics, jar_runs,
                   triage, todo, task, results>>

\* process on a PDF that exists and with an output_dir that cannot be made
\* (a file is in its place): the metrics are started and the work directory
\* is set up, then user_output_dir.mkdir raises, before the try statement.
MkdirRaises(name, fmt) ==
    /\ pc = "idle"
    /\ name \in pdf_exists
    /\ \E v \in {Validate(pdf_exists, name, _metrics)} : _metrics' = v._metrics
    /\ outcome' = "raised"
    /\ pdf_path' = Some(name)
    /\ format' = fmt
    /\ output_dir' = TRUE
    /\ phases' = <<>>
    /\ _temp_dir' = _setup_work_dir(temp_dir)
    /\ work_dir' = TRUE
    /\ UNCHANGED <<mergerVars, outputVars, pdf_exists, fixedVars, pc, jar_runs,
                   triage, todo, task, results>>

\* Phase 4 raises: all_pages.json or triage.json is not what json.load
\* reads.
MergeRaises ==
    /\ pc = "merge"
    /\ phases' = Append(phases, "merge")
    /\ pc' = "idle"
    /\ outcome' = "raised"
    /\ Finally
    /\ UNCHANGED <<heap, _all_pages, _triage, ai_results, ai_given, document_info,
                   page_routing, all_elements, merge_calls, result, log, outputVars,
                   pdf_exists, fixedVars, pdf_path, format, output_dir, _metrics,
                   jar_runs, triage, todo, task, results>>

\* write_output raises: a file of the output directory cannot be written.
WriteRaises ==
    /\ pc = "write"
    /\ output_dir
    /\ phases' = Append(phases, "write")
    /\ pc' = "idle"
    /\ outcome' = "raised"
    /\ Finally
    /\ UNCHANGED <<heap, _all_pages, _triage, ai_results, ai_given, document_info,
                   page_routing, all_elements, merge_calls, result, log, outputVars,
                   pdf_exists, fixedVars, pdf_path, format, output_dir, _metrics,
                   jar_runs, triage, todo, task, results>>

\* A further call merger.merge(ai_results, document_info) with the objects
\* of the call before.
MergeAgain ==
    /\ result # None
    /\ merge_calls < MaxMerges
    /\ \E r \in {merge(fs_all_pages, fs_triage, _all_pages, _triage, heap, log,
                       ai_results, document_info)} :
           /\ _all_pages' = r.all_pages
           /\ _triage' = r.triage
           /\ page_routing' = r.page_routing
           /\ all_elements' = r.all_elements
           /\ merge_calls' = merge_calls + 1
           /\ heap' = r.heap
           /\ log' = r.log
           /\ result' = Some(r.result)
    /\ UNCHANGED <<fs_all_pages, fs_triage, ai_results, ai_given, document_info,
                   outputVars, pipelineVars>>

\* ----------------------------------------------------------------- inputs
PageNums == 1..MaxPage
Coords == 0..MaxCoord
Paths == {"ai", "fast", "other"}

FullMeta ==
    [k \in MetaKeys |->
        IF k = "file name" THEN "a.pdf"
        ELSE IF k = "number of pages" THEN MaxPage
        ELSE IF k = "author" THEN "ann" ELSE Null]

\* A kids list of one element, on page 1.
OneElement == <<"page number" :> 1>>

\* Triage lists with at most one entry per page, in page order, the paths
\* taken from paths; with bare, an entry may lack its path.
RECURSIVE OnePerPage(_, _, _)
OnePerPage(n, paths, bare) ==
    IF n = 0 THEN {<<>>}
    ELSE LET before == OnePerPage(n - 1, paths, bare)
         IN  before
             \cup (IF bare THEN {Append(t, [page |-> n]) : t \in before} ELSE {})
             \cup {Append(t, [page |-> n, path |-> q]) : t \in before, q \in paths}

\* The triage list that routes every page to the AI path.
AllAi == [p \in PageNums |-> [page |-> p, path |-> "ai"]]

\* triage.json: absent, an empty object, or a list of entries.
TriageFiles(lists) ==
    {None, Some(EmptyDict)} \cup {Some([pages |-> t]) : t \in lists}

\* all_pages.json: absent, or a document with up to MaxElems elements.
FastFiles(elems) ==
    {None} \cup {Some(SetKey(FullMeta, "kids", k)) : k \in SeqsUpTo(elems, MaxElems)}

\* The number of elements in all_pages.json.
FastCount(fs) ==
    IF fs = None THEN 0 ELSE Len(Get(Val(fs), "kids", <<>>))

\* The ai_results dicts over the page indices idxs that hold at most n
\* elements in all.
RECURSIVE AiArgsWithin(_, _, _)
AiArgsWithin(elems, idxs, n) ==
    IF idxs = <<>> THEN {EmptyDict}
    ELSE LET rest(k) == AiArgsWithin(elems, Tail(idxs), n - k)
         IN  rest(0)
             \cup UNION {{SetKey(a, Head(idxs), [elements |-> e]) :
                             a \in rest(k), e \in [1..k -> elems]} : k \in 0..n}

AiArgs(elems) ==
    [n \in 0..MaxElems |-> AiArgsWithin(elems, SortedSeq(0..(MaxPage - 1)), n)]

\* The ai_results dicts with at most one result, of at most n elements; the
\* result may lack its "elements" key.
OneResult(elems, n) ==
    {EmptyDict}
    \cup {i :> EmptyDict : i \in 0..(MaxPage - 1)}
    \cup {i :> [elements |-> e] : i \in 0..(MaxPage - 1), e \in SeqsUpTo(elems, n)}

OneResultArgs(elems) == [n \in 0..MaxElems |-> OneResult(elems, n)]

\* The ai_results dicts that are empty or hold one result of 1..n elements.
OneFilledResult(elems, n) ==
    {EmptyDict}
    \cup {i :> [elements |-> e] :
             i \in 0..(MaxPage - 1), e \in SeqsUpTo(elems, n) \ {<<>>}}

OneFilledResultArgs(elems) == [n \in 0..MaxElems |-> OneFilledResult(elems, n)]

\* -------------------------------------------------- the selection behaviours
\* Every page has no entry, an "ai" entry or a "fast" entry. Fast-path
\* elements carry a page number or none; the elements of an AI result carry
\* none or a foreign one.
RoutingFastElems == DictsOver({"page number"}, "page number" :> PageNums)
RoutingAiElems == DictsOver({"page number"}, "page number" :> {MaxPage})
RoutingAiArgs == AiArgs(RoutingAiElems)

Init ==
    /\ MergerAlone
    /\ fs_all_pages \in FastFiles(RoutingFastElems)
    /\ fs_triage \in TriageFiles(OnePerPage(MaxPage, {"ai", "fast"}, FALSE))

Merge ==
    /\ \E ai \in RoutingAiArgs[MaxElems - FastCount(fs_all_pages)] : MergeCall(ai, None)
    /\ UNCHANGED <<outputVars, pipelineVars>>

Next == Merge

Spec == Init /\ [][Next]_vars

\* ---------------------------------------------------- the routing behaviours
\* Every kind of triage entry, over a document and an AI result of one
\* element for page 1.
RouteFiles == {None, Some(SetKey(FullMeta, "kids", OneElement))}
RouteAiArgs == {EmptyDict, 0 :> [elements |-> <<EmptyDict>>]}

InitRoute ==
    /\ MergerAlone
    /\ fs_all_pages \in RouteFiles
    /\ fs_triage \in TriageFiles(OnePerPage(MaxPage, Paths, TRUE))

MergeRoute ==
    /\ \E ai \in RouteAiArgs : MergeCall(ai, None)
    /\ UNCHANGED <<outputVars, pipelineVars>>

NextRoute == MergeRoute

SpecRoute == InitRoute /\ [][NextRoute]_vars

\* --------------------------------------------------- the ordering behaviours
\* Elements with and without a bounding box; a box may be shorter than four
\* coordinates.
Boxes == {<<>>, <<MaxCoord>>} \cup {<<x, y, x, y>> : x \in Coords, y \in Coords}
OrderFastElems ==
    DictsOver({"page number", "bounding box"},
              "page number" :> PageNums @@ "bounding box" :> Boxes)
OrderAiElems == DictsOver({"bounding box"}, "bounding box" :> Boxes)
OrderAiArgs == OneFilledResultArgs(OrderAiElems)

InitOrder ==
    /\ MergerAlone
    /\ fs_all_pages \in FastFiles(OrderFastElems)
    /\ fs_triage = Some([pages |-> AllAi])

MergeOrder ==
    /\ \E ai \in OrderAiArgs[MaxElems - FastCount(fs_all_pages)] : MergeCall(ai, None)
    /\ UNCHANGED <<outputVars, pipelineVars>>

NextOrder == MergeOrder

SpecOrder == InitOrder /\ [][NextOrder]_vars

\* -------------------------------------------------- elements that carry ids
StaleIds == 1..MaxElems
IdFastElems ==
    DictsOver({"page number", "id"}, "page number" :> PageNums @@ "id" :> StaleIds)
IdAiElems == DictsOver({"id"}, "id" :> StaleIds)
IdAiArgs == OneResultArgs(IdAiElems)

InitIds ==
    /\ MergerAlone
    /\ fs_all_pages \in FastFiles(IdFastElems)
    /\ fs_triage \in {None, Some([pages |-> AllAi])}

MergeIds ==
    /\ \E ai \in IdAiArgs[MaxElems - FastCount(fs_all_pages)] : MergeCall(ai, None)
    /\ UNCHANGED <<outputVars, pipelineVars>>

NextIds == MergeIds

SpecIds == InitIds /\ [][NextIds]_vars

\* ------------------------------------------------- the metadata behaviours
\* A metadata dict may lack any field, and hold null in any string field.
MetaDicts(name, pages, who) ==
    DictsOver(MetaKeys,
              [k \in MetaKeys |->
                  IF k = "file name" THEN {name, Null}
                  ELSE IF k = "number of pages" THEN {pages}
                  ELSE {who, Null}])

InfoArgs == {None} \cup {Some(d) : d \in MetaDicts("b.pdf", MaxPage + 1, "bob")}

MetaFiles ==
    {None, Some(EmptyDict), Some([kids |-> OneElement]),
     Some(SetKey(FullMeta, "kids", OneElement)),
     Some([author |-> "ann", title |-> Null, kids |-> OneElement])}

InitMeta ==
    /\ MergerAlone
    /\ fs_all_pages \in MetaFiles
    /\ fs_triage \in {None, Some([pages |-> AllAi])}

MergeMeta ==
    /\ \E info \in InfoArgs : MergeCall(EmptyDict, info)
    /\ UNCHANGED <<outputVars, pipelineVars>>

NextMeta == LoadAllPages \/ LoadTriage \/ MergeMeta

SpecMeta == InitMeta /\ [][NextMeta]_vars

\* ------------------------------------------------ the write_output behaviours
\* write_output on a merged one-paragraph document, for every list of at most
\* MaxFormats format names and for no list.
FormatNames == {"json", "JSON", "markdown", "md", "html", "Html", "text"}
FormatArgs == {None} \cup {Some(l) : l \in SeqsUpTo(FormatNames, MaxFormats)}
WritePaths == {<<"a">>, <<"a", ".", "json">>, <<"a", ".", "b", ".", "json">>}

OneParagraph ==
    <<"type" :> "paragraph" @@ "page number" :> 1 @@ "content" :> <<"a", "<", "b">>>>

InitWrite ==
    /\ MergerAlone
    /\ fs_all_pages = Some(SetKey(FullMeta, "kids", OneParagraph))
    /\ fs_triage = None

MergeWrite ==
    /\ MergeCall(EmptyDict, None)
    /\ UNCHANGED <<outputVars, pipelineVars>>

WriteAny == \E path \in WritePaths, fmts \in FormatArgs : WriteOutput(path, fmts)

NextWrite == MergeWrite \/ WriteAny

SpecWrite == InitWrite /\ [][NextWrite]_vars

\* --------------------------------------------------- the table behaviours
\* A document of one table of at most MaxCells cells, merged and written as
\* Markdown and HTML.  A cell has a row, a column and a content, or none of
\* them.
CellTexts == {<<"a">>, <<"|", "<">>}
CellKinds ==
    {EmptyDict}
    \cup {[row |-> r, column |-> c, content |-> t] :
             r \in 0..(MaxIndex + 1), c \in 0..MaxIndex, t \in CellTexts}
Tables ==
    {"type" :> "table" @@ "page number" :> 1 @@ "cells" :> cs :
        cs \in SeqsUpTo(CellKinds, MaxCells)}

InitTable ==
    /\ MergerAlone
    /\ fs_all_pages \in {Some(SetKey(FullMeta, "kids", <<t>>)) : t \in Tables}
    /\ fs_triage = None

WriteTable == WriteOutput(<<"t", ".", "json">>, Some(<<"md", "html">>))

NextTable == MergeWrite \/ WriteTable

SpecTable == InitTable /\ [][NextTable]_vars

\* ================================================================== claims
\* What the claims speak of, read off the inputs and the result.
\* ---------------------------------------------------- the adapter behaviours
\* Page 1 is routed to the AI path and its AI result is what the table
\* adapter returns for one detected table of up to MaxCells cells; the
\* merged document is written as Markdown and HTML.
DetectedCells ==
    {[row |-> r, col |-> c, text |-> t] :
        r \in 0..(MaxIndex + 1), c \in 0..MaxIndex, t \in {<<>>, <<"a">>}}
DetectedTables == {[cells |-> cs] : cs \in SeqsUpTo(DetectedCells, MaxCells)}

InitAdapter ==
    /\ MergerAlone
    /\ fs_all_pages = None
    /\ fs_triage = Some([pages |-> <<[page |-> 1, path |-> "ai"]>>])

MergeAdapter ==
    /\ \E table \in DetectedTables : MergeCall(0 :> TableAdapter_process(<<table>>, 0), None)
    /\ UNCHANGED <<outputVars, pipelineVars>>

NextAdapter == MergeAdapter \/ WriteTable

SpecAdapter == InitAdapter /\ [][NextAdapter]_vars

\* ----------------------------------------------------- the escape behaviours
\* A document with a title of one character and one element of any kind
\* that carries a text of up to MaxText characters, among them the four that
\* are escaped and the rest of an entity, written as HTML.
TitleChars == {"&", "<", ">", "\"", "a"}
TextChars == TitleChars \cup {"amp;"}
Texts == SeqsUpTo(TextChars, MaxText)
TextKinds == {"heading", "paragraph", "list item", "code", "caption", "image",
              "table", "cell"}
TextElement(kind, text) ==
    IF kind = "image" THEN ("type" :> "image") @@ ("alt text" :> text)
    ELSE IF kind = "cell"
    THEN ("type" :> "table")
         @@ ("cells" :> <<[row |-> 0, column |-> 0, content |-> text]>>)
    ELSE ("type" :> kind) @@ ("content" :> text)

InitEscape ==
    /\ MergerAlone
    /\ fs_all_pages \in
         {Some(SetKey(SetKey(FullMeta, "title", ch), "kids", <<TextElement(kind, text)>>)) :
             ch \in TitleChars, kind \in TextKinds, text \in Texts}
    /\ fs_triage = None

WriteHtml == WriteOutput(<<"e", ".", "json">>, Some(<<"html">>))

NextEscape == MergeWrite \/ WriteHtml

SpecEscape == InitEscape /\ [][NextEscape]_vars

\* --------------------------------------------------- the pipeline behaviours
\* One call of process on a PDF that exists. The JAR raises, or leaves any
\* of the triage lists and an all_pages.json or none; the converter fails
\* to start, or converts each page it is given in any of the ways of
\* Conversions.
PdfName == <<"a", ".", "pdf">>
JarTriage == {None} \cup {Some([pages |-> t]) : t \in OnePerPage(MaxPage, {"ai", "fast"}, FALSE)}
JarPages ==
    {None,
     Some(SetKey(FullMeta, "kids",
            [p \in PageNums |-> ("type" :> "paragraph") @@ ("page number" :> p)
                                @@ ("content" :> <<"f">>)]))}
Conversions ==
    {[raises |-> TRUE, items |-> <<>>]}
    \cup {[raises |-> FALSE, items |-> l] : l \in SeqsUpTo({"text", "bad"}, MaxElems)}

InitPipe ==
    /\ InitMerger
    /\ InitOutput
    /\ InitPipeline
    /\ fs_all_pages = None
    /\ fs_triage = None
    /\ pdf_exists = {PdfName}
    /\ keep_intermediate = FALSE
    /\ temp_dir = None

CallOnce ==
    /\ outcome = "none"
    /\ \E outdir \in BOOLEAN : ProcessCall(PdfName, None, outdir)
Jar == \E ok \in BOOLEAN, tr \in JarTriage, ap \in JarPages : RunJar(ok, tr, ap)
Converter == \E ok \in BOOLEAN : StartAi(ok)
Convert == \E conv \in Conversions : FinishPage(conv)

NextPipe ==
    \/ CallOnce
    \/ Jar
    \/ LoadTriagePhase
    \/ Converter
    \/ StartPage
    \/ Convert
    \/ MergePhase
    \/ WritePhase

SpecPipe == InitPipe /\ [][NextPipe]_vars

\* ------------------------------------------------- the repeated behaviours
\* Calls of process one after the other on the same pipeline, some with a
\* path at which there is no file; at most MaxRuns of them get past the
\* validation. The document has one page, routed to the AI path.
MissingName == <<"missing", ".", "pdf">>
OneAiPage == Some([pages |-> <<[page |-> 1, path |-> "ai"]>>])
FewConversions ==
    {[raises |-> TRUE, items |-> <<>>], [raises |-> FALSE, items |-> <<"text">>],
     [raises |-> FALSE, items |-> <<"bad">>]}

InitValidate ==
    /\ InitMerger
    /\ InitOutput
    /\ InitPipeline
    /\ fs_all_pages = None
    /\ fs_triage = None
    /\ pdf_exists = {PdfName}
    /\ keep_intermediate \in BOOLEAN
    /\ temp_dir = None

CallAgain ==
    \E name \in {PdfName, MissingName}, outdir \in BOOLEAN :
        /\ name \in pdf_exists => jar_runs < MaxRuns
        /\ ProcessCall(name, None, outdir)
JarOnePage == \E ok \in BOOLEAN, ap \in JarPages : RunJar(ok, OneAiPage, ap)
ConvertFew == \E conv \in FewConversions : FinishPage(conv)

NextValidate ==
    \/ CallAgain
    \/ JarOnePage
    \/ LoadTriagePhase
    \/ Converter
    \/ StartPage
    \/ ConvertFew
    \/ MergePhase
    \/ WritePhase

SpecValidate == InitValidate /\ [][NextValidate]_vars

\* ---------------------------------------------------- the naming behaviours
\* One call of process for every input name and format; every page on the
\* fast path.
PdfNames ==
    {<<"a", ".", "pdf">>, <<"a", ".", "b", ".", "pdf">>,
     <<"1901", ".", "03003", ".", "pdf">>, <<"a">>}
ProcessFormats ==
    {None, <<"str", "">>, <<"str", "json">>, <<"str", "md">>, <<"str", "html">>,
     <<"list", <<>>>>, <<"list", <<"json", "markdown", "html">>>>}
FastTriage == {None, Some([pages |-> [p \in PageNums |-> [page |-> p, path |-> "fast"]]])}

InitNames ==
    /\ InitMerger
    /\ InitOutput
    /\ InitPipeline
    /\ fs_all_pages = None
    /\ fs_triage = None
    /\ pdf_exists = PdfNames
    /\ keep_intermediate \in BOOLEAN
    /\ temp_dir = None

CallNamed ==
    /\ outcome = "none"
    /\ \E name \in PdfNames, fmt \in ProcessFormats, outdir \in BOOLEAN :
         ProcessCall(name, fmt, outdir)
JarFast == \E tr \in FastTriage, ap \in JarPages : RunJar(TRUE, tr, ap)

NextNames ==
    \/ CallNamed
    \/ JarFast
    \/ LoadTriagePhase
    \/ MergePhase
    \/ WritePhase

SpecNames == InitNames /\ [][NextNames]_vars

\* ------------------------------------------------------------------ claims
Done == result # None
Out == Val(result)["kids"]
OutPage(o) == IF "page number" \in DOMAIN heap[o] THEN heap[o]["page number"] ELSE 1
Count(o) == Cardinality({i \in DOMAIN Out : Out[i] = o})

\* The routing list of triage.json, and the page each entry is for.
TriageList ==
    IF fs_triage # None /\ "pages" \in DOMAIN Val(fs_triage)
    THEN Val(fs_triage)["pages"] ELSE <<>>
EntryPage(i) == IF "page" \in DOMAIN TriageList[i] THEN TriageList[i]["page"] ELSE 0
EntryIsAi(i) == "path" \in DOMAIN TriageList[i] /\ TriageList[i]["path"] = "ai"
OneEntryPerPage ==
    \A i, j \in DOMAIN TriageList : EntryPage(i) = EntryPage(j) => i = j

\* Page p is routed ai: the entry for p (the last one, should there be
\* several) says "ai".
RoutedAi(p) ==
    \E i \in DOMAIN TriageList :
        /\ EntryPage(i) = p
        /\ EntryIsAi(i)
        /\ \A j \in DOMAIN TriageList : EntryPage(j) = p => j <= i

\* The elements of all_pages.json as written, and the objects loaded from them.
FileKids ==
    IF fs_all_pages # None /\ "kids" \in DOMAIN Val(fs_all_pages)
    THEN Val(fs_all_pages)["kids"] ELSE <<>>
FilePage(j) == IF "page number" \in DOMAIN FileKids[j] THEN FileKids[j]["page number"] ELSE 1
FastObj(j) == Val(_all_pages)["kids"][j]
FastObjs(p) == {FastObj(j) : j \in {k \in DOMAIN FileKids : FilePage(k) = p}}

\* The objects of the AI result for page p (index p - 1).
HasAi(p) == (p - 1) \in DOMAIN ai_results
AiSeq(p) ==
    IF HasAi(p) /\ "elements" \in DOMAIN ai_results[p - 1]
    THEN ai_results[p - 1]["elements"] ELSE <<>>
AiObjs(p) == Range(AiSeq(p))

CandidatePages ==
    {EntryPage(i) : i \in DOMAIN TriageList}
    \cup {FilePage(j) : j \in DOMAIN FileKids}
    \cup {i + 1 : i \in DOMAIN ai_results}

\* The source selected for page p.
UsesAi(p) == RoutedAi(p) /\ HasAi(p)
Selected(p) == IF UsesAi(p) THEN AiObjs(p) ELSE FastObjs(p)
SelectedSize(p) == Cardinality(Selected(p))
ShownOn(p) == {o \in Range(Out) : OutPage(o) = p}

RECURSIVE SelectedTotal(_)
SelectedTotal(S) ==
    IF S = {} THEN 0
    ELSE LET x == CHOOSE y \in S : TRUE
         IN  SelectedSize(x) + SelectedTotal(S \ {x})

\* C1: a page routed ai that has an AI result shows none of its fast-path
\* elements, a page not routed ai shows no element of the AI result at its
\* index, and no page shows elements of both sources.
C1_Exclusive ==
    Done =>
        /\ \A p \in CandidatePages :
              /\ UsesAi(p) => FastObjs(p) \cap Range(Out) = {}
              /\ ~RoutedAi(p) => AiObjs(p) \cap Range(Out) = {}
        /\ \A p, q \in CandidatePages :
              \A f \in FastObjs(p) \cap Range(Out), a \in AiObjs(q) \cap Range(Out) :
                  OutPage(f) # OutPage(a)

\* A page routed ai with an AI result and with fast-path elements, whose AI
\* elements are in the output.
C1_Witness ==
    /\ Done
    /\ \E p \in CandidatePages :
          UsesAi(p) /\ FastObjs(p) # {} /\ AiObjs(p) # {} /\ AiObjs(p) \subseteq Range(Out)

\* C2 as stated: every page for which the fast-path or the AI source holds
\* an element has an element in the merged output.
C2_AnySourceShown ==
    Done => \A p \in CandidatePages :
                (FastObjs(p) # {} \/ AiObjs(p) # {}) => ShownOn(p) # {}

\* C2 as amended: every page whose selected source (the AI result when the
\* page is routed ai and the result exists, else the fast-path elements)
\* holds an element has an element in the merged output.
C2_SelectedSourceShown ==
    Done => \A p \in CandidatePages : Selected(p) # {} => ShownOn(p) # {}

\* One page shown from its selected source, and another page whose only
\* content is in the source not selected for it.
C2_Witness ==
    /\ Done
    /\ \E p, q \in CandidatePages :
          /\ Selected(p) # {} /\ ShownOn(p) # {}
          /\ Selected(q) = {} /\ FastObjs(q) \cup AiObjs(q) # {}

\* C3: the output elements of every candidate page are exactly the elements
\* of the source selected for it, each once, every output element belongs to
\* a candidate page, and the output is as long as the selected sources
\* together.
C3_ExactlySelected ==
    Done =>
        /\ \A p \in CandidatePages :
              /\ ShownOn(p) = Selected(p)
              /\ \A o \in Selected(p) : Count(o) = 1
        /\ \A o \in Range(Out) : OutPage(o) \in CandidatePages
        /\ Len(Out) = SelectedTotal(CandidatePages)

\* A full merge that takes one page from the AI result and another from the
\* fast-path document.
C3_Witness ==
    /\ Done
    /\ Len(Out) = MaxElems
    /\ \E p, q \in CandidatePages :
          UsesAi(p) /\ AiObjs(p) # {} /\ ~UsesAi(q) /\ FastObjs(q) # {}

\* C4: when merge has returned, for every page routed ai without an AI
\* result every fast-path element of the page is in the output exactly once.
C4_Fallback ==
    Done => \A p \in CandidatePages :
                (RoutedAi(p) /\ ~HasAi(p)) => \A o \in FastObjs(p) : Count(o) = 1

\* A page routed ai without an AI result and with fast-path elements.
C4_Witness ==
    /\ Done
    /\ \E p \in CandidatePages : RoutedAi(p) /\ ~HasAi(p) /\ FastObjs(p) # {}

\* C5: every element of the AI result of a page routed ai is in the output
\* and carries that page's number.
C5_Stamped ==
    Done => \A p \in CandidatePages :
                UsesAi(p) => \A o \in AiObjs(p) :
                    /\ o \in Range(Out)
                    /\ "page number" \in DOMAIN heap[o]
                    /\ heap[o]["page number"] = p

\* Page 1 is routed ai and has an AI element: before the merge it carried no
\* page number or that of the last page.
C5_Witness == Done /\ UsesAi(1) /\ AiObjs(1) # {} /\ MaxPage > 1

\* C6: with at most one entry per page, the route merge uses for a page is
\* "ai" exactly when an entry for the page has the path "ai".
C6_Route ==
    (Done /\ OneEntryPerPage) =>
        \A p \in 0..(MaxPage + 1) :
            (PathOf(page_routing, p) = "ai")
                <=> (\E i \in DOMAIN TriageList : EntryPage(i) = p /\ EntryIsAi(i))

\* A list with an ai entry, and an entry without a path or with another path.
C6_Witness ==
    /\ Done
    /\ OneEntryPerPage
    /\ \E i, j \in DOMAIN TriageList :
          /\ EntryIsAi(i)
          /\ ~EntryIsAi(j)
          /\ ("path" \notin DOMAIN TriageList[j] \/ TriageList[j]["path"] = "other")

\* The reading-order key of an element as the result shows it: its page
\* number (1 when it carries none), the top y and the left x of its bounding
\* box, a missing box or coordinate counting as 0.
ReadingKey(o) ==
    LET e == heap[o]
        box == IF "bounding box" \in DOMAIN e THEN e["bounding box"] ELSE <<>>
    IN  <<OutPage(o),
          IF Len(box) >= 2 THEN box[2] ELSE 0,
          IF Len(box) >= 1 THEN box[1] ELSE 0>>

NotAfter(k1, k2) ==
    \/ k1[1] < k2[1]
    \/ k1[1] = k2[1] /\ k1[2] < k2[2]
    \/ k1[1] = k2[1] /\ k1[2] = k2[2] /\ k1[3] <= k2[3]

Occurrences(seq, o) == Cardinality({i \in DOMAIN seq : seq[i] = o})
Position(seq, o) == CHOOSE i \in DOMAIN seq : seq[i] = o

\* C7: the returned list is a permutation of the list the merge step built,
\* and its reading-order keys never decrease.
C7_ReadingOrder ==
    Done =>
        /\ Len(Out) = Len(all_elements)
        /\ \A o \in Range(Out) \cup Range(all_elements) :
              Occurrences(Out, o) = Occurrences(all_elements, o)
        /\ \A i \in 1..(Len(Out) - 1) : NotAfter(ReadingKey(Out[i]), ReadingKey(Out[i + 1]))

\* The sort moved an element, and an element without a full bounding box
\* (none, or fewer than two coordinates) was sorted.
C7_Witness ==
    /\ Done
    /\ Out # all_elements
    /\ \E o \in Range(Out) :
          "bounding box" \notin DOMAIN heap[o] \/ Len(heap[o]["bounding box"]) < 2

\* C8: two elements of equal key keep the order they had before the sort.
C8_Stable ==
    Done =>
        \A i, j \in DOMAIN all_elements :
            (i < j /\ ReadingKey(all_elements[i]) = ReadingKey(all_elements[j]))
                => Position(Out, all_elements[i]) < Position(Out, all_elements[j])

\* Two elements of equal key were sorted, one with and one without a
\* bounding box.
C8_Witness ==
    /\ Done
    /\ \E i, j \in DOMAIN all_elements :
          /\ i < j
          /\ ReadingKey(all_elements[i]) = ReadingKey(all_elements[j])
          /\ "bounding box" \in DOMAIN heap[all_elements[i]]
          /\ "bounding box" \notin DOMAIN heap[all_elements[j]]

\* C9: the element at position i of the returned list has the id i.
C9_SequentialIds ==
    Done => \A i \in DOMAIN Out :
                "id" \in DOMAIN heap[Out[i]] /\ heap[Out[i]]["id"] = i

\* A full result in which an element carried, in all_pages.json, an id other
\* than the one it has now.
C9_Witness ==
    /\ Done
    /\ Len(Out) = MaxElems
    /\ \E j \in DOMAIN FileKids :
          /\ "id" \in DOMAIN FileKids[j]
          /\ FastObj(j) \in Range(Out)
          /\ FileKids[j]["id"] # heap[FastObj(j)]["id"]

\* The six metadata fields of a dict, with the defaults of a missing field.
FieldOf(d, k) ==
    IF k \in DOMAIN d THEN d[k]
    ELSE IF k = "file name" THEN ""
    ELSE IF k = "number of pages" THEN 0
    ELSE Null

\* C10: the metadata of the result is that of document_info whenever one is
\* given, else that of the loaded fast-path document, else the defaults.
C10_WholeObjectPriority ==
    Done =>
        \A k \in MetaKeys :
            Val(result)[k] =
                IF document_info # None THEN FieldOf(Val(document_info), k)
                ELSE IF _all_pages # None THEN FieldOf(Val(_all_pages), k)
                ELSE FieldOf(EmptyDict, k)

\* C10, the part the code keeps: when the supplied document_info is absent or
\* has at least one field, the metadata is that of the first available object.
C10_NonEmptyInfoPriority ==
    (Done /\ document_info # Some(EmptyDict)) => C10_WholeObjectPriority


\* The number of times the warning w was logged.
Logged(w) == Cardinality({i \in DOMAIN log : log[i] = w})

\* C14: without triage.json, load_triage returns {"pages": []}, a warning is
\* logged, the routing table is empty and every page shows its fast-path
\* elements; without all_pages.json, load_all_pages returns {"kids": []}, a
\* warning is logged, the output holds no fast-path element and, no
\* document_info being given, the metadata are the defaults.
C14_MissingFiles ==
    Done =>
        /\ fs_triage = None =>
              /\ load_triage(fs_triage, None, <<>>).ret = [pages |-> <<>>]
              /\ Logged(<<"triage.json not found", 0>>) >= 1
              /\ page_routing = EmptyDict
              /\ \A p \in CandidatePages : ShownOn(p) = FastObjs(p)
        /\ fs_all_pages = None =>
              /\ load_all_pages(fs_all_pages, None, <<>>, <<>>).ret = [kids |-> <<>>]
              /\ Logged(<<"all_pages.json not found", 0>>) >= 1
              /\ _all_pages = None
              /\ \A o \in Range(Out) : \E p \in CandidatePages : o \in AiObjs(p)
              /\ document_info = None =>
                    \A k \in MetaKeys : Val(result)[k] = DefaultMeta[k]

\* No triage.json: a page with fast-path elements and an AI result shows the
\* fast-path elements.
C14_Witness ==
    /\ Done
    /\ fs_triage = None
    /\ \E p \in CandidatePages : AiObjs(p) # {} /\ FastObjs(p) # {} /\ ShownOn(p) = FastObjs(p)

\* C15: with both files present, the warning "AI result missing" is logged
\* once for every page routed ai that has no AI result, for no other page,
\* and nothing else is logged.
C15_OneWarningPerMissing ==
    (Done /\ fs_triage # None /\ fs_all_pages # None) =>
        /\ \A p \in CandidatePages :
              Logged(<<"AI result missing", p>>) =
                  IF RoutedAi(p) /\ ~HasAi(p) THEN 1 ELSE 0
        /\ \A i \in DOMAIN log : log[i][1] = "AI result missing" /\ log[i][2] \in CandidatePages

\* A page routed ai with neither an AI result nor fast-path elements: one
\* warning and no element, next to a page that shows elements.
C15_Witness ==
    /\ Done
    /\ fs_triage # None /\ fs_all_pages # None
    /\ \E p, q \in CandidatePages :
          /\ RoutedAi(p) /\ ~HasAi(p) /\ FastObjs(p) = {} /\ ShownOn(p) = {}
          /\ Logged(<<"AI result missing", p>>) = 1
          /\ ShownOn(q) # {}


\* The contents of the ai_results dict now: every element object replaced by
\* the dict it holds.
AiContents ==
    [idx \in DOMAIN ai_results |->
        IF "elements" \in DOMAIN ai_results[idx]
        THEN [ai_results[idx] EXCEPT
                !["elements"] = [i \in DOMAIN @ |-> heap[@[i]]]]
        ELSE ai_results[idx]]

\* C19: when merge has returned, the routing source, every element of the
\* loaded fast-path document and the ai_results mapping with every element
\* in it are as they were before the call.
C19_InputsUnchanged ==
    Done =>
        /\ _triage = fs_triage
        /\ \A j \in DOMAIN FileKids : heap[FastObj(j)] = FileKids[j]
        /\ AiContents = ai_given

\* What merge writes into the elements of its inputs: the id of every
\* element of the output and the page number of every AI element used;
\* every other key, and every element left out, is as it was.
Without(d, keys) == [k \in DOMAIN d \ keys |-> d[k]]

C19_OnlyIdsAndPageNumbers ==
    Done =>
        /\ _triage = fs_triage
        /\ \A j \in DOMAIN FileKids :
              IF FastObj(j) \in Range(Out)
              THEN Without(heap[FastObj(j)], {"id"}) = Without(FileKids[j], {"id"})
              ELSE heap[FastObj(j)] = FileKids[j]
        /\ DOMAIN ai_results = DOMAIN ai_given
        /\ \A idx \in DOMAIN ai_given :
              /\ DOMAIN AiContents[idx] = DOMAIN ai_given[idx]
              /\ "elements" \in DOMAIN ai_given[idx] =>
                    /\ Len(AiContents[idx]["elements"]) = Len(ai_given[idx]["elements"])
                    /\ \A i \in DOMAIN ai_given[idx]["elements"] :
                          IF ai_results[idx]["elements"][i] \in Range(Out)
                          THEN Without(AiContents[idx]["elements"][i], {"id", "page number"})
                               = Without(ai_given[idx]["elements"][i], {"id", "page number"})
                          ELSE AiContents[idx]["elements"][i] = ai_given[idx]["elements"][i]


\* write_output was called; the kinds of file it wrote.
Written == output_path # None
WrittenKinds == {files[n][1] : n \in DOMAIN files}

\* The kind of file a format name asks for: json, md or html, whatever the
\* case of its letters; "none" for any other name.
KindOf(fmt) ==
    IF fmt \in {"json", "JSON"} THEN "json"
    ELSE IF fmt \in {"markdown", "md"} THEN "md"
    ELSE IF fmt \in {"html", "Html"} THEN "html"
    ELSE "none"

RequestedKinds ==
    IF formats = None THEN {"json"}
    ELSE {KindOf(f) : f \in Range(Val(formats))} \ {"none"}

\* C18: write_output writes exactly one file for every kind a recognized
\* name of the list asks for (markdown and md ask for the same file), named
\* with the extension of the kind, and nothing for any other name; without a
\* list it writes the JSON file only.
C18_RecognizedFormatsWritten ==
    Written =>
        /\ WrittenKinds = RequestedKinds
        /\ Cardinality(DOMAIN files) = Cardinality(RequestedKinds)
        /\ \A n \in DOMAIN files : n[Len(n)] = files[n][1]

\* An unrecognized name ahead of a recognized one written in capitals.
C18_Witness ==
    /\ Written
    /\ formats = Some(<<"text", "JSON">>)
    /\ WrittenKinds = {"json"}

\* ---- the table of the document, and the grid the claims speak of
TheCells == Get(FileKids[1], "cells", <<>>)
CellRow(cell) == IF "row" \in DOMAIN cell THEN cell["row"] ELSE 0
CellColumn(cell) == IF "column" \in DOMAIN cell THEN cell["column"] ELSE 0
CellText(cell) == IF "content" \in DOMAIN cell THEN cell["content"] ELSE <<>>
RowIndices == {CellRow(TheCells[i]) : i \in DOMAIN TheCells}
MaxColumn ==
    CHOOSE m \in {CellColumn(TheCells[i]) : i \in DOMAIN TheCells} :
        \A i \in DOMAIN TheCells : CellColumn(TheCells[i]) <= m

\* The content of the cell registered at (r, c), the last one of the list
\* should there be several; the empty string where there is none.
Registered(r, c) ==
    LET at == {i \in DOMAIN TheCells :
                  CellRow(TheCells[i]) = r /\ CellColumn(TheCells[i]) = c}
    IN  IF at = {} THEN <<>>
        ELSE CellText(TheCells[CHOOSE i \in at : \A j \in at : j <= i])

\* ---- reading the written files
LinesOf(kind) == files[CHOOSE n \in DOMAIN files : files[n][1] = kind][2]

RECURSIVE SplitAt(_, _)
SplitAt(s, sep) ==
    IF s = <<>> THEN <<<<>>>>
    ELSE LET rest == SplitAt(Tail(s), sep)
         IN  IF Head(s) = sep THEN <<<<>>>> \o rest
             ELSE <<<<Head(s)>> \o Head(rest)>> \o Tail(rest)

\* The rows of the Markdown table, separator row included, as lists of cells.
IsMarkdownRow(line) == Len(line) >= 2 /\ line[1] = "| " /\ line[Len(line)] = " |"
MarkdownCells(line) == SplitAt(SubSeq(line, 2, Len(line) - 1), " | ")
MarkdownRows ==
    LET lines == SelectSeq(LinesOf("md"), IsMarkdownRow)
    IN  [i \in DOMAIN lines |-> MarkdownCells(lines[i])]
\* The rows but the separator, which is the second.
MarkdownGrid == [i \in 1..(Len(MarkdownRows) - 1) |->
                    MarkdownRows[IF i = 1 THEN 1 ELSE i + 1]]

RECURSIVE MarkdownText(_)
MarkdownText(cell) ==
    IF cell = <<>> THEN <<>>
    ELSE IF Len(cell) >= 2 /\ cell[1] = "\\" /\ cell[2] = "|"
    THEN <<"|">> \o MarkdownText(SubSeq(cell, 3, Len(cell)))
    ELSE <<Head(cell)>> \o MarkdownText(Tail(cell))

\* The rows of the HTML table: the lines between <tr> and </tr>, each one
\* [tag, text].
IsHtmlCell(line) == Len(line) >= 6 /\ line[1] = "    <"
RECURSIVE HtmlRowsFrom(_, _)
HtmlRowsFrom(rows, lines) ==
    IF lines = <<>> THEN rows
    ELSE LET line == Head(lines)
         IN  HtmlRowsFrom(
                IF line = <<"  <tr>">> THEN Append(rows, <<>>)
                ELSE IF IsHtmlCell(line) /\ rows # <<>>
                THEN [rows EXCEPT ![Len(rows)] =
                        Append(@, [tag |-> line[2], text |-> SubSeq(line, 4, Len(line) - 3)])]
                ELSE rows,
                Tail(lines))
HtmlGrid == HtmlRowsFrom(<<>>, LinesOf("html"))

RECURSIVE HtmlText(_)
HtmlText(cell) ==
    IF cell = <<>> THEN <<>>
    ELSE IF Len(cell) >= 2 /\ cell[1] = "&" /\ cell[2] \in {"amp;", "lt;", "gt;", "quot;"}
    THEN <<CASE cell[2] = "amp;" -> "&" [] cell[2] = "lt;" -> "<"
             [] cell[2] = "gt;" -> ">" [] cell[2] = "quot;" -> "\"">>
         \o HtmlText(SubSeq(cell, 3, Len(cell)))
    ELSE <<Head(cell)>> \o HtmlText(Tail(cell))

\* C20: for a table with cells, every row of the Markdown and of the HTML
\* rendering has MaxColumn + 1 cells, and the cell at column c of the k-th
\* row shows the content registered at (r, c), r the k-th smallest row
\* index that has a cell; the empty string where none is registered.
C20_Grid ==
    (Written /\ TheCells # <<>>) =>
        LET rows == SortedSeq(RowIndices)
        IN  /\ \A i \in DOMAIN MarkdownRows : Len(MarkdownRows[i]) = MaxColumn + 1
            /\ \A i \in DOMAIN HtmlGrid : Len(HtmlGrid[i]) = MaxColumn + 1
            /\ Len(MarkdownGrid) = Len(rows)
            /\ Len(HtmlGrid) = Len(rows)
            /\ \A k \in DOMAIN rows : \A c \in 0..MaxColumn :
                  /\ MarkdownText(MarkdownGrid[k][c + 1]) = Registered(rows[k], c)
                  /\ HtmlText(HtmlGrid[k][c + 1].text) = Registered(rows[k], c)

\* The table of the cells (0, 0) and (1, 1): a 2 x 2 grid with two empty cells.
C20_Witness ==
    /\ Written
    /\ Len(TheCells) = 2
    /\ CellRow(TheCells[1]) = 0 /\ CellColumn(TheCells[1]) = 0
    /\ CellRow(TheCells[2]) = 1 /\ CellColumn(TheCells[2]) = 1
    /\ CellText(TheCells[1]) # CellText(TheCells[2])
    /\ Len(HtmlGrid) = 2 /\ Len(MarkdownGrid) = 2
    /\ HtmlGrid[1][2].text = <<>> /\ MarkdownGrid[2][1] = <<>>


\* ---- the tasks of the AI-routed pages
Attempted(i) == task[i] \in {"done", "failed"}
SomeFailed == \E i \in DOMAIN task : task[i] = "failed"

\* C11: once the processing of an AI-routed page has failed, process does
\* not raise; when the loop over the pages is left every page has been
\* attempted, and the call ends by returning the merged result.
C11_FailureIsolated ==
    SomeFailed =>
        /\ outcome # "raised"
        /\ pc # "ai" => \A i \in DOMAIN task : Attempted(i)
        /\ pc = "idle" => (outcome = "returned" /\ result # None
                           /\ "merge" \in Range(phases))

\* The first of two AI-routed pages failed, the second was converted, and
\* process returned.
C11_Witness ==
    /\ outcome = "returned"
    /\ task = <<"failed", "done">>
    /\ (MaxPage - 1) \in DOMAIN results

\* C12: a page whose processing raised has no entry in the results that
\* _process_ai_pages returns, and thus none in the ai_results merge is given.
C12_FailedPageHasNoEntry ==
    \A i \in DOMAIN task :
        task[i] = "failed" =>
            /\ (todo[i] - 1) \notin DOMAIN results
            /\ result # None => (todo[i] - 1) \notin DOMAIN ai_given

\* The order of the phases.
Rank(phase) ==
    CASE phase = "jar" -> 1
      [] phase = "triage" -> 2
      [] phase = "ai" -> 3
      [] phase = "merge" -> 4
      [] phase = "write" -> 5

\* C13: the phases of a call begin in the order jar, triage, ai, merge,
\* write (ai only with AI-routed pages, write only with an output
\* directory); a call that returns has been through jar, triage and merge;
\* and from the start of the merge on no task is pending or running.
C13_PhaseOrder ==
    /\ \A i, j \in DOMAIN phases : i < j => Rank(phases[i]) < Rank(phases[j])
    /\ (pc \in {"merge", "write"} \/ "merge" \in Range(phases)) =>
           \A i \in DOMAIN task : Attempted(i)
    /\ outcome = "returned" =>
           /\ {"jar", "triage", "merge"} \subseteq Range(phases)
           /\ "ai" \in Range(phases) <=> todo # <<>>
           /\ "write" \in Range(phases) <=> output_dir

\* A call that went through all five phases, with a page that failed and a
\* page that did not.
C13_Witness ==
    /\ outcome = "returned"
    /\ phases = <<"jar", "triage", "ai", "merge", "write">>
    /\ {"done", "failed"} \subseteq Range(task)

\* C16: a call of process that raises FileNotFoundError changes nothing: not
\* the number of JAR runs, not the work directory, not the output directory,
\* not the metrics.
C16_NoEffectBeforeValidation ==
    [][(pc = "idle" /\ pc' = "idle" /\ outcome' = "FileNotFoundError") =>
          UNCHANGED <<mergerVars, outputVars, pdf_exists, fixedVars, pdf_path,
                      format, output_dir, pc, phases, _metrics, _temp_dir, work_dir,
                      jar_runs, triage, todo, task, results>>]_vars

\* A call that raised FileNotFoundError after a run that counted a page and
\* wrote its output.
C16_Witness ==
    /\ outcome = "FileNotFoundError"
    /\ jar_runs = 1
    /\ _metrics # None
    /\ files # EmptyDict
    /\ Val(_metrics).total_pages = 1
    /\ phases # <<>>

\* The input file name without its final extension.
BaseName(name) ==
    IF Len(name) >= 3 /\ name[Len(name) - 1] = "."
    THEN SubSeq(name, 1, Len(name) - 2)
    ELSE name

\* The output files of the call: the file of every kind requested is there
\* under the name base.kind.
OutputsNamedAfter(base) ==
    \A kind \in RequestedKinds :
        /\ (base \o <<".", kind>>) \in DOMAIN files
        /\ files[base \o <<".", kind>>][1] = kind

\* C17: after a call with an output directory, the file of every requested
\* format is named after the input file without its final extension.
C17_SiblingFiles ==
    (outcome = "returned" /\ output_dir) => OutputsNamedAfter(BaseName(Val(pdf_path)))

\* The same for the input names whose base has no dot in it.
C17_SiblingFilesOfPlainNames ==
    (outcome = "returned" /\ output_dir /\ "." \notin Range(BaseName(Val(pdf_path)))) =>
        OutputsNamedAfter(BaseName(Val(pdf_path)))


\* The smallest and the largest row index that has a cell.
MinRow == CHOOSE r \in RowIndices : \A q \in RowIndices : r <= q
MaxRow == CHOOSE r \in RowIndices : \A q \in RowIndices : q <= r
EmptyCells == [c \in 1..(MaxColumn + 1) |-> <<>>]

\* C21: the rendered grid has one row for every row index from the smallest
\* to the largest that has a cell, and a row index in between that has no
\* cell is rendered as a row of max_col + 1 empty cells.
C21_GapRowsRendered ==
    (Written /\ TheCells # <<>>) =>
        /\ Len(MarkdownGrid) = MaxRow - MinRow + 1
        /\ Len(HtmlGrid) = MaxRow - MinRow + 1
        /\ \A r \in (MinRow..MaxRow) \ RowIndices :
              /\ MarkdownGrid[r - MinRow + 1] = EmptyCells
              /\ [c \in 1..(MaxColumn + 1) |-> HtmlGrid[r - MinRow + 1][c].text] = EmptyCells

\* C22: the Markdown table has one row more than there are row indices with
\* a cell, the second being the separator of max_col + 1 cells ---, and the
\* first showing the cells of the smallest row index; the HTML table has a
\* row for every such index, the cells of the first being th and the cells
\* of all the others td.
C22_HeaderRow ==
    (Written /\ TheCells # <<>>) =>
        /\ Len(MarkdownRows) = Cardinality(RowIndices) + 1
        /\ MarkdownRows[2] = [c \in 1..(MaxColumn + 1) |-> <<"---">>]
        /\ \A c \in 0..MaxColumn :
              /\ MarkdownText(MarkdownRows[1][c + 1]) = Registered(MinRow, c)
              /\ HtmlText(HtmlGrid[1][c + 1].text) = Registered(MinRow, c)
        /\ Len(HtmlGrid) = Cardinality(RowIndices)
        /\ \A i \in DOMAIN HtmlGrid : \A c \in DOMAIN HtmlGrid[i] :
              HtmlGrid[i][c].tag = IF i = 1 THEN "th" ELSE "td"

\* A table whose cells were listed with the later row first: the header is
\* the row of the smaller index.
C22_Witness ==
    /\ Written
    /\ Len(TheCells) = 2
    /\ CellRow(TheCells[1]) > CellRow(TheCells[2])
    /\ CellText(TheCells[1]) # CellText(TheCells[2])
    /\ Len(MarkdownRows) = 3
    /\ HtmlGrid[2][1].tag = "td"


\* ---- the table the adapter built, and its cells
AdapterTable == ai_given[0]["elements"][1]
AdapterCells ==
    Concat([i \in DOMAIN AdapterTable["rows"] |-> AdapterTable["rows"][i].cells])
AdapterText(cell) == cell["kids"][1].content
DistinctPositions ==
    \A i, j \in DOMAIN AdapterCells :
        (/\ AdapterCells[i]["row number"] = AdapterCells[j]["row number"]
         /\ AdapterCells[i]["column number"] = AdapterCells[j]["column number"]) => i = j

\* The text shown at row r, column c of a rendered grid of cells.
ShownAt(grid, r, c) ==
    IF r \in DOMAIN grid /\ c \in DOMAIN grid[r] THEN Some(grid[r][c]) ELSE None

\* C23: a table built by the table adapter, no two cells of it at one
\* position and one of them with text, is rendered as a Markdown and as an
\* HTML table with the text of every cell at its row number and column number.
C23_NestedTableRendered ==
    (Written /\ Done /\ DistinctPositions
       /\ \E i \in DOMAIN AdapterCells : AdapterText(AdapterCells[i]) # <<>>) =>
        \A i \in DOMAIN AdapterCells :
            LET r == AdapterCells[i]["row number"]
                c == AdapterCells[i]["column number"]
            IN  /\ ShownAt(MarkdownGrid, r, c) # None
                /\ MarkdownText(Val(ShownAt(MarkdownGrid, r, c))) = AdapterText(AdapterCells[i])
                /\ ShownAt(HtmlGrid, r, c) # None
                /\ HtmlText(Val(ShownAt(HtmlGrid, r, c)).text) = AdapterText(AdapterCells[i])

\* The largest value of a key among the cells of the table.
LargestOf(key) ==
    CHOOSE n \in {AdapterCells[i][key] : i \in DOMAIN AdapterCells} :
        \A i \in DOMAIN AdapterCells : AdapterCells[i][key] <= n

\* C25: the table the adapter builds from detected cells, no two of them at
\* one position, has as its number
\* of rows the largest 0-based row index of the cells + 1, which is the
\* largest row number, and as its number of columns the largest column
\* number.
C25_CountsFromIndices ==
    (Done /\ AdapterCells # <<>> /\ DistinctPositions) =>
        /\ AdapterTable["number of rows"] = LargestOf("row number")
        /\ AdapterTable["number of columns"] = LargestOf("column number")


\* ---- the texts of the document and what the HTML file shows for them
\* Every character of the text replaced by its entity, once.
Entity(ch) ==
    CASE ch = "&" -> <<"&", "amp;">>
      [] ch = "<" -> <<"&", "lt;">>
      [] ch = ">" -> <<"&", "gt;">>
      [] ch = "\"" -> <<"&", "quot;">>
      [] OTHER -> <<ch>>
EscapedOnce(text) == Concat([i \in DOMAIN text |-> Entity(text[i])])

\* A line without the open tokens at its head and the close tokens at its end.
Between(line, open, close) == SubSeq(line, open + 1, Len(line) - close)
HtmlFile == LinesOf("html")
TheElement == FileKids[1]
ElementLine == HtmlFile[Len(HtmlHead(EmptyDict)) + 1]

\* The pairs of a text of the document and what the file shows for it: the
\* title, and the text of the element.
ShownTexts ==
    {<<Str(Val(fs_all_pages)["title"]), Between(HtmlFile[4], 1, 1)>>}
    \cup (IF TheElement["type"] = "image"
          THEN {<<TheElement["alt text"], Between(ElementLine, 1, 1)>>}
          ELSE IF "cells" \in DOMAIN TheElement
          THEN {<<TheElement["cells"][1].content, HtmlGrid[1][1].text>>}
          ELSE IF TheElement["type"] = "heading"
          THEN {<<TheElement["content"], Between(ElementLine, 3, 3)>>}
          ELSE IF TheElement["type"] = "caption" /\ TheElement["content"] = <<>>
          THEN {}
          ELSE {<<TheElement["content"], Between(ElementLine, 1, 1)>>})

\* C24: what the HTML file shows for a text of the document is the text
\* with every & < > " replaced by its entity once, and decoding the entities
\* gives the text back.
C24_EscapedOnce ==
    Written =>
        \A shown \in ShownTexts :
            /\ shown[2] = EscapedOnce(shown[1])
            /\ HtmlText(shown[2]) = shown[1]

\* A table cell that reads &amp;< is shown as &amp;amp;&lt; under a title <.
C24_Witness ==
    /\ Written
    /\ "cells" \in DOMAIN TheElement
    /\ TheElement["cells"][1].content = <<"&", "amp;">>
    /\ HtmlGrid[1][1].text = <<"&", "amp;", "amp;">>
    /\ Val(fs_all_pages)["title"] = "<"
    /\ HtmlFile[4] = <<"  <title>", "&", "lt;", "</title>">>


\* ------------------------------------------------- hybrid/models/base.py
\* The adapter classes of the repository: the three of hybrid/models and the
\* MockAdapter of tests/test_model_adapters.py.
AdapterClasses ==
    { [module |-> "layout", __name__ |-> "LayoutAdapter"],
      [module |-> "ocr", __name__ |-> "OCRAdapter"],
      [module |-> "table", __name__ |-> "TableAdapter"],
      [module |-> "test_model_adapters", __name__ |-> "MockAdapter"] }

\* BaseModelAdapter.__init__: a new adapter object, its model not loaded.
BaseModelAdapter(adapter_class) == [cls |-> adapter_class, _model |-> None]

\* ModelRegistry.get that makes an instance at every call.
ModelRegistry_get_NoCache(instances, objs, adapter_class, ok) ==
    LET key == adapter_class.__name__
    IN  IF ~ok
        THEN [raised |-> TRUE, _instances |-> instances, adapters |-> objs,
              ret |-> 0, made |-> FALSE]
        ELSE [raised |-> FALSE,
              _instances |-> SetKey(instances, key, Len(objs) + 1),
              adapters |-> Append(objs, BaseModelAdapter(adapter_class)),
              ret |-> Len(objs) + 1, made |-> TRUE]

\* ModelRegistry.get(adapter_class, **kwargs): the instance kept under the
\* name of the class, made first if there is none.  ok is whether the
\* constructor accepts the kwargs; if it raises nothing is kept.
ModelRegistry_get(instances, objs, adapter_class, ok) ==
    LET key == adapter_class.__name__
    IN  IF key \notin DOMAIN instances
        THEN IF ~ok
             THEN [raised |-> TRUE, _instances |-> instances, adapters |-> objs,
                   ret |-> 0, made |-> FALSE]
             ELSE [raised |-> FALSE,
                   _instances |-> SetKey(instances, key, Len(objs) + 1),
                   adapters |-> Append(objs, BaseModelAdapter(adapter_class)),
                   ret |-> Len(objs) + 1, made |-> TRUE]
        ELSE [raised |-> FALSE, _instances |-> instances, adapters |-> objs,
              ret |-> instances[key], made |-> FALSE]

\* BaseModelAdapter.is_loaded
is_loaded(adapter) == adapter._model # None

\* The _load_model of the four classes: the model is set, or the method
\* raises (the library is not installed, the OCR engine is unknown) and the
\* model stays as it was.
_load_model(adapter, load_ok) ==
    IF load_ok
    THEN [raised |-> FALSE, adapter |-> [adapter EXCEPT !._model = Some("model")],
          loaded |-> TRUE]
    ELSE [raised |-> TRUE, adapter |-> adapter, loaded |-> FALSE]

\* ensure_loaded that loads the model whether it is loaded or not.
ensure_loaded_Reload(adapter, load_ok) == _load_model(adapter, load_ok)

\* BaseModelAdapter.ensure_loaded
ensure_loaded(adapter, load_ok) ==
    IF ~is_loaded(adapter)
    THEN _load_model(adapter, load_ok)
    ELSE [raised |-> FALSE, adapter |-> adapter, loaded |-> FALSE]

\* Whether process of the class begins with self.ensure_loaded(): that of
\* LayoutAdapter, OCRAdapter and TableAdapter does, that of the tests'
\* MockAdapter returns its dict at once.
CallsEnsureLoaded(adapter_class) == adapter_class.__name__ # "MockAdapter"

\* process(image_path, page_number) of the four classes, as far as the model
\* is concerned.  run_ok is whether what follows ensure_loaded returns (the
\* image opens, the engine runs).
Adapter_process(adapter, load_ok, run_ok) ==
    IF CallsEnsureLoaded(adapter.cls)
    THEN LET r == ensure_loaded(adapter, load_ok)
         IN  [r EXCEPT !.raised = r.raised \/ ~run_ok]
    ELSE [raised |-> FALSE, adapter |-> adapter, loaded |-> FALSE]

\* BaseModelAdapter.cleanup
cleanup(adapter) == [adapter EXCEPT !._model = None]

\* The record of a call on the adapter object a: whether it returned, whether
\* it loaded the model, and is_loaded after it.
AdapterCall(op, a, r) ==
    [op |-> op, a |-> a, returned |-> ~r.raised, loaded |-> r.loaded,
     is_loaded |-> is_loaded(r.adapter)]

\* adapter_class(): an adapter made by its constructor.
Construct(adapter_class) ==
    /\ Len(calls) < MaxCalls
    /\ adapters' = Append(adapters, BaseModelAdapter(adapter_class))
    /\ calls' = Append(calls, AdapterCall("__init__", Len(adapters) + 1,
                   [raised |-> FALSE, adapter |-> BaseModelAdapter(adapter_class),
                    loaded |-> FALSE]))
    /\ UNCHANGED <<_instances, mergerVars, outputVars, processVars>>

\* A call adapters[a].ensure_loaded().
EnsureLoaded(a, load_ok) ==
    /\ Len(calls) < MaxCalls
    /\ \E r \in {ensure_loaded(adapters[a], load_ok)} :
        /\ adapters' = [adapters EXCEPT ![a] = r.adapter]
        /\ calls' = Append(calls, AdapterCall("ensure_loaded", a, r))
    /\ UNCHANGED <<_instances, mergerVars, outputVars, processVars>>

\* A call adapters[a].process(image_path, page_number).
Process(a, load_ok, run_ok) ==
    /\ Len(calls) < MaxCalls
    /\ \E r \in {Adapter_process(adapters[a], load_ok, run_ok)} :
        /\ adapters' = [adapters EXCEPT ![a] = r.adapter]
        /\ calls' = Append(calls, AdapterCall("process", a, r))
    /\ UNCHANGED <<_instances, mergerVars, outputVars, processVars>>

\* A call adapters[a].cleanup().
Cleanup(a) ==
    /\ Len(calls) < MaxCalls
    /\ adapters' = [adapters EXCEPT ![a] = cleanup(adapters[a])]
    /\ calls' = Append(calls, AdapterCall("cleanup", a,
                   [raised |-> FALSE, adapter |-> cleanup(adapters[a]),
                    loaded |-> FALSE]))
    /\ UNCHANGED <<_instances, mergerVars, outputVars, processVars>>

\* A call ModelRegistry.get(adapter_class, **kwargs).
RegistryGet(adapter_class, ok) ==
    /\ Len(calls) < MaxCalls
    /\ \E r \in {ModelRegistry_get(_instances, adapters, adapter_class, ok)} :
        /\ _instances' = r._instances
        /\ adapters' = r.adapters
        /\ calls' = Append(calls, [op |-> "get", cls |-> adapter_class,
                                   ret |-> r.ret, made |-> r.made])
    /\ UNCHANGED <<mergerVars, outputVars, processVars>>

\* A call ModelRegistry.clear(): the objects stay with whoever holds them.
RegistryClear ==
    /\ Len(calls) < MaxCalls
    /\ _instances' = EmptyDict
    /\ calls' = Append(calls, [op |-> "clear", cls |-> None, ret |-> 0,
                               made |-> FALSE])
    /\ UNCHANGED <<adapters, mergerVars, outputVars, processVars>>

\* The registry of a fresh interpreter, beside a merger and a pipeline that
\* are not used.
InitRegistry ==
    /\ fs_all_pages = None
    /\ fs_triage = None
    /\ MergerAlone

NextRegistry ==
    \/ \E adapter_class \in AdapterClasses, ok \in BOOLEAN :
           RegistryGet(adapter_class, ok)
    \/ RegistryClear

SpecRegistry == InitRegistry /\ [][NextRegistry]_vars


\* ------------------------------------------------------------ C26
\* Whether calls[i] and calls[j] have no clear between them.
NoClearBetween(i, j) == \A k \in (i + 1)..(j - 1) : calls[k].op # "clear"

\* Whether calls[i] is a get of the class that returned.
GotAt(i, adapter_class) ==
    /\ calls[i].op = "get"
    /\ calls[i].cls = adapter_class
    /\ calls[i].ret # 0

\* Whether the get calls[j] is the first of its class to return after a clear.
FirstGetAfterClear(j) ==
    /\ calls[j].op = "get"
    /\ calls[j].ret # 0
    /\ \E k \in 1..(j - 1) :
        /\ calls[k].op = "clear"
        /\ \A i \in (k + 1)..(j - 1) : ~GotAt(i, calls[j].cls)

\* C26: two gets of one class with no clear between them return the same
\* instance, at most one of them made it, and the first get of a class after
\* a clear returns an instance made by that call that no call returned before.
C26_OneInstanceBetweenClears ==
    /\ \A i \in DOMAIN calls, j \in DOMAIN calls :
        (i < j /\ calls[i].op = "get" /\ calls[j].op = "get"
           /\ calls[i].cls = calls[j].cls /\ NoClearBetween(i, j))
        => /\ (calls[i].ret # 0 /\ calls[j].ret # 0) => calls[i].ret = calls[j].ret
           /\ ~(calls[i].made /\ calls[j].made)
    /\ \A j \in DOMAIN calls :
        FirstGetAfterClear(j)
        => /\ calls[j].made
           /\ \A i \in 1..(j - 1) : calls[i].ret # calls[j].ret

\* get, clear, get of MockAdapter: the two gets returned different instances,
\* each made by its call.
C26_Witness ==
    /\ Len(calls) = 3
    /\ calls[1].op = "get" /\ calls[3].op = "get" /\ calls[2].op = "clear"
    /\ calls[1].cls.__name__ = "MockAdapter"
    /\ calls[3].cls = calls[1].cls
    /\ calls[1].ret = 1 /\ calls[3].ret = 2
    /\ adapters[2].cls = calls[1].cls


\* Adapters made by their constructors and used, beside a merger and a
\* pipeline that are not used.
InitLoad ==
    /\ fs_all_pages = None
    /\ fs_triage = None
    /\ MergerAlone

NextLoad ==
    \/ \E adapter_class \in AdapterClasses : Construct(adapter_class)
    \/ \E a \in DOMAIN adapters, load_ok \in BOOLEAN : EnsureLoaded(a, load_ok)
    \/ \E a \in DOMAIN adapters, load_ok \in BOOLEAN, run_ok \in BOOLEAN :
           Process(a, load_ok, run_ok)
    \/ \E a \in DOMAIN adapters : Cleanup(a)

SpecLoad == InitLoad /\ [][NextLoad]_vars

\* ------------------------------------------------------------ C27
\* is_loaded is false after the constructor and after every cleanup.
UnloadedWhenNewOrCleaned ==
    \A i \in DOMAIN calls :
        calls[i].op \in {"__init__", "cleanup"} => ~calls[i].is_loaded

\* Between two cleanups of an adapter the model is loaded at most once: of
\* two calls that loaded it, a cleanup lies between them.
LoadedOncePerCleanup ==
    \A i \in DOMAIN calls, j \in DOMAIN calls :
        (i < j /\ calls[i].a = calls[j].a /\ calls[i].loaded /\ calls[j].loaded)
        => \E k \in (i + 1)..(j - 1) :
               calls[k].a = calls[i].a /\ calls[k].op = "cleanup"

\* C27 as stated: is_loaded is false initially and after every cleanup and
\* true after every ensure_loaded or process that returned, and the model is
\* loaded at most once between two cleanups.
C27_LoadedAfterEveryUse ==
    /\ UnloadedWhenNewOrCleaned
    /\ \A i \in DOMAIN calls :
        (calls[i].op \in {"ensure_loaded", "process"} /\ calls[i].returned)
        => calls[i].is_loaded
    /\ LoadedOncePerCleanup

\* C27: is_loaded is false initially and after every cleanup, true after
\* every ensure_loaded that returned and after every process that returned of
\* a class whose process calls ensure_loaded, and unchanged by the process of
\* any other class; the model is loaded at most once between two cleanups.
C27_LoadedAfterLoadingUse ==
    /\ UnloadedWhenNewOrCleaned
    /\ \A i \in DOMAIN calls :
        /\ (calls[i].op = "ensure_loaded" /\ calls[i].returned)
           => calls[i].is_loaded
        /\ (calls[i].op = "process" /\ calls[i].returned
              /\ CallsEnsureLoaded(adapters[calls[i].a].cls))
           => calls[i].is_loaded
        /\ (calls[i].op = "process"
              /\ ~CallsEnsureLoaded(adapters[calls[i].a].cls))
           => /\ ~calls[i].loaded
              /\ \A k \in 1..(i - 1) :
                   (calls[k].a = calls[i].a
                      /\ \A q \in (k + 1)..(i - 1) : calls[q].a # calls[i].a)
                   => calls[i].is_loaded = calls[k].is_loaded
    /\ LoadedOncePerCleanup

\* A TableAdapter whose first process loaded the model and whose second
\* found it loaded.
C27_Witness ==
    /\ Len(calls) = 3
    /\ adapters[1].cls.__name__ = "TableAdapter"
    /\ calls[2].op = "process" /\ calls[2].returned /\ calls[2].loaded
    /\ calls[3].op = "process" /\ calls[3].returned /\ ~calls[3].loaded
    /\ calls[3].is_loaded


\* ------------------------------------------------- the repeated pages
\* process on a PDF whose triage.json may name a page more than once and may
\* leave the path of an entry out.
TriageEntries ==
    {[page |-> p] : p \in PageNums}
    \cup {[page |-> p, path |-> q] : p \in PageNums, q \in {"ai", "fast"}}
AnyTriage == {Some([pages |-> t]) : t \in SeqsUpTo(TriageEntries, MaxEntries)}

InitDup == InitPipe

JarDup == \E ok \in BOOLEAN, tr \in AnyTriage, ap \in JarPages : RunJar(ok, tr, ap)
NextDup ==
    \/ CallOnce
    \/ JarDup
    \/ LoadTriagePhase
    \/ Converter
    \/ StartPage
    \/ ConvertFew
    \/ MergePhase
    \/ WritePhase

SpecDup == InitDup /\ [][NextDup]_vars

\* ------------------------------------------------------------ C28
\* The pages process sends to the AI phase, and the pages merge routes ai.
SentToAi == Range(todo)
MergedAsAi == {p \in DOMAIN page_routing : page_routing[p] = "ai"}

\* C28: once process has merged, the pages it sent to the AI phase are the
\* pages the merger routed ai.
C28_SentPagesAreRoutedAi ==
    "merge" \in Range(phases) => SentToAi = MergedAsAi


\* ------------------------------------------------- the repeated merges
\* merge called again on the merger with the arguments of the first call.
\* Elements with and without a page number, with a stale id, with a box.
AgainFastElems ==
    {EmptyDict, "page number" :> MaxPage,
     ("id" :> MaxElems) @@ ("bounding box" :> <<0, MaxCoord, 0, MaxCoord>>)}
AgainAiElems == {EmptyDict, "page number" :> MaxPage, "id" :> MaxElems}
AgainAiArgs == OneResultArgs(AgainAiElems)
AgainTriage == {None, Some([pages |-> AllAi]), Some([pages |-> <<[page |-> 1, path |-> "ai"]>>])}

InitAgain ==
    /\ MergerAlone
    /\ fs_all_pages \in FastFiles(AgainFastElems)
    /\ fs_triage \in AgainTriage

MergeFirst ==
    /\ \E ai \in AgainAiArgs[MaxElems - FastCount(fs_all_pages)],
          info \in {None, Some(FullMeta)} : MergeCall(ai, info)
    /\ UNCHANGED <<outputVars, pipelineVars>>

NextAgain == MergeFirst \/ MergeAgain

SpecAgain == InitAgain /\ [][NextAgain]_vars

\* ------------------------------------------------------------ C29
\* C29: a merge that follows a merge on the same merger returns the document
\* the call before returned: the same metadata and the same elements in the
\* same order, with the page numbers and ids they had after that call.
C29_SecondMergeEqual ==
    [][(merge_calls >= 1 /\ merge_calls' = merge_calls + 1)
       => /\ Val(result') = Val(result)
          /\ Document(heap', Val(result')) = Document(heap, Val(result))]_vars

\* A second merge that returned an AI element stamped with its page and a
\* fast-path element after it.
C29_Witness ==
    /\ merge_calls = 2
    /\ Len(Val(result)["kids"]) = 2
    /\ 0 \in DOMAIN ai_results
    /\ "elements" \in DOMAIN ai_results[0]
    /\ Val(result)["kids"][1] \in Range(ai_results[0]["elements"])
    /\ heap[Val(result)["kids"][1]]["page number"] = 1
    /\ heap[Val(result)["kids"][1]]["id"] = 1
    /\ heap[Val(result)["kids"][2]]["id"] = 2
    /\ heap[Val(result)["kids"][2]]["page number"] = MaxPage


\* ------------------------------------------------- the work directory
\* One call of process, with or without keep_intermediate and a configured
\* temp_dir, that may leave at any of its exits.
InitCleanup ==
    /\ InitMerger
    /\ InitOutput
    /\ InitPipeline
    /\ fs_all_pages = None
    /\ fs_triage = None
    /\ pdf_exists = {PdfName}
    /\ keep_intermediate \in BOOLEAN
    /\ temp_dir \in {None, Some("configured")}

NoOutputDir == outcome = "none" /\ MkdirRaises(PdfName, None)

NextCleanup ==
    \/ CallOnce
    \/ NoOutputDir
    \/ Jar
    \/ LoadTriagePhase
    \/ Converter
    \/ StartPage
    \/ ConvertFew
    \/ MergePhase
    \/ MergeRaises
    \/ WritePhase
    \/ WriteRaises

SpecCleanup == InitCleanup /\ [][NextCleanup]_vars

\* ------------------------------------------------------------ C30
\* process has left after its validation, by a return or by an exception.
Exited == pc = "idle" /\ outcome \in {"returned", "raised"}

\* C30: after every exit of process past the validation the work directory
\* is removed and _temp_dir is None unless keep_intermediate is set, and
\* with keep_intermediate the work directory and _temp_dir are left.
C30_WorkDirRemovedAtExit ==
    Exited =>
        IF keep_intermediate
        THEN work_dir /\ _temp_dir = _setup_work_dir(temp_dir)
        ELSE ~work_dir /\ _temp_dir = None

====
